---- MODULE Spec2Model ----
(***************************************************************************)
(* A model of bundns: an authoritative DNS server (UDP loop, rate limiter, *)
(* lookup cache, selection engine, health checker) and the DDNS / control  *)
(* plane writers of the API server, which share one SQLite store but run   *)
(* as separate processes.                                                  *)
(*                                                                         *)
(* Strings whose characters matter (names, datagrams) are sequences of     *)
(* character codes; opaque strings (record values, URLs) are TLA+ strings. *)
(***************************************************************************)
EXTENDS Integers, Sequences, FiniteSets, TLC

VARIABLES
    domains,      \* table domains: set of [id, name, user_id]
    records,      \* table records: set of rows
    ddnsTokens,   \* table ddns_tokens: set of rows
    nextId,       \* AUTOINCREMENT counters of the tables domains and records
    ddnsUpdates,  \* table ddns_updates (audit), a sequence of rows
    cache,        \* DnsRepository.cache: Map fqdn -> [expiresAt, records]
    limiter,      \* startServer.limiter: Map address -> [tokens, last, blockedUntil]
    cfg,          \* the repository's readonly fields: cacheTtlMs, healthCheckIntervalMs
    now,          \* Date.now() in milliseconds
    api,          \* the API server's handler in its synchronous section (position and locals)
    hc,           \* the health pass in flight (position and locals)
    lastLookup,   \* what DnsRepository.lookup read and returned, if the last step called it
    sent,         \* what the data handler did with its datagram, if the last step ran it
    call,         \* the last application of a pure function (its inputs and result)
    changedAt,    \* history: per name, the time of the last commit that changed its rows
    hist          \* history: per source address the datagrams accepted and the first refusal,
                  \* and the number of statements committed by the writers

vars == <<domains, records, ddnsTokens, nextId, ddnsUpdates, cache, limiter, cfg, now, api, hc,
          lastLookup, sent, call, changedAt, hist>>

storeVars == <<domains, records, ddnsTokens, nextId, ddnsUpdates>>
serverVars == <<cache, limiter, cfg>>
histVars == <<changedAt, hist>>

\* A step that is neither a lookup nor the handling of a datagram.
NoEvent == lastLookup' = [op |-> "none"] /\ sent' = [op |-> "none"]

(***************************************************************************)
(* Character codes and names                                               *)
(***************************************************************************)
CH == [a |-> 97, b |-> 98, c |-> 99, h |-> 104, A |-> 65, B |-> 66,
       dot |-> 46, us |-> 95, pct |-> 37, sp |-> 32, at |-> 64]

Null == "<null>"

Last(s) == s[Len(s)]

Front(s) == SubSeq(s, 1, Len(s) - 1)

RECURSIVE TrimLeft(_)
TrimLeft(s) ==
    IF Len(s) > 0 /\ Head(s) = CH.sp THEN TrimLeft(Tail(s)) ELSE s

RECURSIVE TrimRight(_)
TrimRight(s) ==
    IF Len(s) > 0 /\ Last(s) = CH.sp THEN TrimRight(Front(s)) ELSE s

Trim(s) == TrimRight(TrimLeft(s))

LowerChar(ch) == IF ch >= 65 /\ ch <= 90 THEN ch + 32 ELSE ch

ToLowerCase(s) == [i \in 1..Len(s) |-> LowerChar(s[i])]

normalizeFqdn_keepCase(input) ==
    LET trimmed == Trim(input)
    IN  IF Len(trimmed) = 0 THEN <<>>
        ELSE IF Last(trimmed) = CH.dot THEN trimmed
        ELSE Append(trimmed, CH.dot)

\* normalizeFqdn: trim, lower-case, add the trailing dot; an empty name throws
\* (modelled as the result <<>>, which no name has and which callers test for).
normalizeFqdn(input) ==
    LET trimmed == ToLowerCase(Trim(input))
    IN  IF Len(trimmed) = 0 THEN <<>>
        ELSE IF Last(trimmed) = CH.dot THEN trimmed
        ELSE Append(trimmed, CH.dot)

\* normalizeDomain: the normalized name without its trailing dot.
normalizeDomain(input) ==
    LET fqdn == normalizeFqdn(input)
    IN  IF fqdn = <<>> THEN <<>> ELSE Front(fqdn)

(***************************************************************************)
(* Constants of the server                                                 *)
(***************************************************************************)
QTYPE == [A |-> 1, NS |-> 2, CNAME |-> 5, SOA |-> 6, PTR |-> 12, MX |-> 15,
          TXT |-> 16, AAAA |-> 28, SRV |-> 33, CAA |-> 257, ANY |-> 255]

QCLASS == [IN |-> 1]

RCODE == [NOERROR |-> 0, FORMERR |-> 1, SERVFAIL |-> 2, NXDOMAIN |-> 3,
          NOTIMP |-> 4, REFUSED |-> 5]

SUPPORTED_RECORD_TYPES ==
    {"A", "AAAA", "CNAME", "NS", "SOA", "MX", "TXT", "CAA", "SRV", "PTR"}

(***************************************************************************)
(* net-utils: CIDR matching on IPv4 addresses (four octets)                *)
(***************************************************************************)
\* The 32-bit number of an address as its two 16-bit halves (the number itself
\* does not fit the checker's integers for a first octet of 128 or more).
parseIpv4(ip) == [hi |-> ip[1] * 256 + ip[2], lo |-> ip[3] * 256 + ip[4]]

isIPv4(ip) == Len(ip) = 4 /\ \A i \in 1..4 : ip[i] \in 0..255

\* The number num with its low sh bits dropped, sh in 0..31.
MaskOff(num, sh) ==
    IF sh >= 16 THEN [hi |-> num.hi \div (2 ^ (sh - 16)), lo |-> 0]
    ELSE [hi |-> num.hi, lo |-> num.lo \div (2 ^ sh)]

\* (ipNum & mask) === (baseNum & mask), mask = 0xffffffff << (32 - prefix),
\* the shift count taken modulo 32 as JavaScript does.
ipInCidr(ip, cidr) ==
    IF ~isIPv4(ip) \/ ~isIPv4(cidr.base) THEN FALSE
    ELSE IF cidr.prefix = 0 THEN TRUE
    ELSE LET sh == (32 - cidr.prefix) % 32
         IN  MaskOff(parseIpv4(ip), sh) = MaskOff(parseIpv4(cidr.base), sh)

ipMatchesAnyCidr(ip, cidrs) ==
    \E i \in 1..Len(cidrs) : ipInCidr(ip, cidrs[i])

(***************************************************************************)
(* Selection engine (DnsRepository.selectRecordsForQuery)                  *)
(***************************************************************************)
RECURSIVE FilterSeq(_, _)
FilterSeq(s, keep) ==
    IF s = <<>> THEN <<>>
    ELSE IF keep[Head(s)] THEN <<Head(s)>> \o FilterSeq(Tail(s), keep)
    ELSE FilterSeq(Tail(s), keep)

BlankUrl(url) == url = Null \/ url = "" \/ url = " "

toDnsRecord(record) == [type |-> record.type, ttl |-> record.ttl, value |-> record.value]

MapDns(rows) == [i \in 1..Len(rows) |-> toDnsRecord(rows[i])]

EffWeight_one(record) == 1

EffWeight(record) == IF record.weight > 1 THEN record.weight ELSE 1

RECURSIVE TotalWeight(_)
TotalWeight(rows) ==
    IF rows = <<>> THEN 0 ELSE EffWeight(Head(rows)) + TotalWeight(Tail(rows))

\* The walk of pickWeighted for one value of roll = floor(random * total).
RECURSIVE WalkWeighted(_, _)
WalkWeighted(rows, roll) ==
    IF Len(rows) = 1 THEN Head(rows)
    ELSE IF roll - EffWeight(Head(rows)) < 0 THEN Head(rows)
    ELSE WalkWeighted(Tail(rows), roll - EffWeight(Head(rows)))

\* pickWeighted: the rows Math.random() can make it return (none for no rows).
pickWeighted(rows) ==
    IF rows = <<>> THEN {}
    ELSE { WalkWeighted(rows, roll) : roll \in 0..(TotalWeight(rows) - 1) }

filterHealthy_bitOnly(rows) ==
    LET usable == FilterSeq(rows, [r \in {rows[i] : i \in 1..Len(rows)} |-> r.healthy = 1])
    IN  IF Len(usable) > 0 THEN usable ELSE rows

filterHealthy(rows) ==
    LET usable == FilterSeq(rows, [r \in {rows[i] : i \in 1..Len(rows)} |->
                       IF BlankUrl(r.healthcheck_url) THEN TRUE ELSE r.healthy = 1])
    IN  IF Len(usable) > 0 THEN usable ELSE rows

GeoPool_noPreference(rows, clientIp) == rows

GeoPool(rows, clientIp) ==
    LET S == {rows[i] : i \in 1..Len(rows)}
        geoMatches == FilterSeq(rows, [r \in S |->
                          Len(r.geo_cidrs) > 0 /\ ipMatchesAnyCidr(clientIp, r.geo_cidrs)])
        nonGeo == FilterSeq(rows, [r \in S |-> Len(r.geo_cidrs) = 0])
    IN  IF clientIp = <<>> THEN rows
        ELSE IF Len(geoMatches) > 0 THEN geoMatches
        ELSE IF Len(nonGeo) > 0 THEN nonGeo
        ELSE rows

\* pickRouted: the rows it can return (the empty set stands for null).
pickRouted(rows, clientIp) ==
    IF rows = <<>> THEN {}
    ELSE pickWeighted(filterHealthy(GeoPool(rows, clientIp)))

OfType_all(rows, type) == rows

OfType(rows, type) ==
    FilterSeq(rows, [r \in {rows[i] : i \in 1..Len(rows)} |-> r.type = type])

EnabledRows_all(rows) == rows

EnabledRows(rows) ==
    FilterSeq(rows, [r \in {rows[i] : i \in 1..Len(rows)} |-> r.enabled = 1])

qtypeToType(qtype) ==
    IF qtype = QTYPE.NS THEN "NS"
    ELSE IF qtype = QTYPE.SOA THEN "SOA"
    ELSE IF qtype = QTYPE.PTR THEN "PTR"
    ELSE IF qtype = QTYPE.MX THEN "MX"
    ELSE IF qtype = QTYPE.TXT THEN "TXT"
    ELSE IF qtype = QTYPE.SRV THEN "SRV"
    ELSE IF qtype = QTYPE.CAA THEN "CAA"
    ELSE Null

\* The types of rows in order of first appearance (the key order of byType).
RECURSIVE TypeOrder(_, _)
TypeOrder(rows, seen) ==
    IF rows = <<>> THEN <<>>
    ELSE IF Head(rows).type \in seen THEN TypeOrder(Tail(rows), seen)
    ELSE <<Head(rows).type>> \o TypeOrder(Tail(rows), seen \cup {Head(rows).type})

SelectAny_everyRow(types, enabled, clientIp) == { MapDns(enabled) }

\* The ANY branch: one routed pick per address-like type, every row of the others.
RECURSIVE SelectAny(_, _, _)
SelectAny(types, enabled, clientIp) ==
    IF types = <<>> THEN {<<>>}
    ELSE LET list == OfType(enabled, Head(types))
             rest == SelectAny(Tail(types), enabled, clientIp)
             heads == IF Head(types) \in {"A", "AAAA", "CNAME"}
                      THEN { <<toDnsRecord(p)>> : p \in pickRouted(list, clientIp) }
                      ELSE { MapDns(list) }
         IN  { h \o t : h \in heads, t \in rest }

PickOne(rows, clientIp) ==
    IF rows = <<>> THEN {<<>>}
    ELSE { <<toDnsRecord(p)>> : p \in pickRouted(rows, clientIp) }

selectRecordsForQuery_typeOnly(rows, qtype, clientIp) ==
    LET enabled == EnabledRows(rows)
        targetType == IF qtype = QTYPE.A THEN "A"
                      ELSE IF qtype = QTYPE.AAAA THEN "AAAA" ELSE "CNAME"
        exactType == qtypeToType(qtype)
    IN  IF Len(enabled) = 0 THEN {<<>>}
        ELSE IF qtype = QTYPE.ANY THEN SelectAny(TypeOrder(enabled, {}), enabled, clientIp)
        ELSE IF qtype \in {QTYPE.A, QTYPE.AAAA, QTYPE.CNAME}
             THEN PickOne(OfType(enabled, targetType), clientIp)
        ELSE IF exactType = Null THEN {<<>>}
        ELSE { MapDns(OfType(enabled, exactType)) }

\* selectRecordsForQuery: the set of answers it can return for these inputs
\* (one element when no random pick is involved).
selectRecordsForQuery(rows, qtype, clientIp) ==
    LET enabled == EnabledRows(rows)
        cname == OfType(enabled, "CNAME")
        targetType == IF qtype = QTYPE.A THEN "A"
                      ELSE IF qtype = QTYPE.AAAA THEN "AAAA" ELSE "CNAME"
        exactType == qtypeToType(qtype)
    IN  IF Len(enabled) = 0 THEN {<<>>}
        ELSE IF qtype = QTYPE.ANY THEN SelectAny(TypeOrder(enabled, {}), enabled, clientIp)
        ELSE IF qtype \in {QTYPE.A, QTYPE.AAAA, QTYPE.CNAME}
             THEN IF Len(cname) > 0 THEN PickOne(cname, clientIp)
                  ELSE PickOne(OfType(enabled, targetType), clientIp)
        ELSE IF exactType = Null THEN {<<>>}
        ELSE { MapDns(OfType(enabled, exactType)) }

\* shouldAnswerForType of the codec: the row types a qtype may be answered with.
shouldAnswerForType(qtype, record) ==
    IF qtype = QTYPE.ANY THEN TRUE
    ELSE IF qtype = QTYPE.A THEN record.type = "A" \/ record.type = "CNAME"
    ELSE IF qtype = QTYPE.AAAA THEN record.type = "AAAA" \/ record.type = "CNAME"
    ELSE IF qtype = QTYPE.CNAME THEN record.type = "CNAME"
    ELSE IF qtype = QTYPE.NS THEN record.type = "NS"
    ELSE IF qtype = QTYPE.SOA THEN record.type = "SOA"
    ELSE IF qtype = QTYPE.MX THEN record.type = "MX"
    ELSE IF qtype = QTYPE.TXT THEN record.type = "TXT"
    ELSE IF qtype = QTYPE.CAA THEN record.type = "CAA"
    ELSE IF qtype = QTYPE.SRV THEN record.type = "SRV"
    ELSE IF qtype = QTYPE.PTR THEN record.type = "PTR"
    ELSE FALSE

\* ORDER BY CASE type WHEN 'CNAME' THEN 0 WHEN 'A' THEN 1 WHEN 'AAAA' THEN 2 ELSE 3 END, id
TypeRank(type) ==
    IF type = "CNAME" THEN 0 ELSE IF type = "A" THEN 1 ELSE IF type = "AAAA" THEN 2 ELSE 3

RowBefore(r1, r2) ==
    \/ TypeRank(r1.type) < TypeRank(r2.type)
    \/ TypeRank(r1.type) = TypeRank(r2.type) /\ r1.id < r2.id

RECURSIVE SortRows(_)
SortRows(S) ==
    IF S = {} THEN <<>>
    ELSE LET first == CHOOSE r \in S : \A o \in S \ {r} : RowBefore(r, o)
         IN  <<first>> \o SortRows(S \ {first})

(***************************************************************************)
(* Wire codec: parseQuery and the response builders                        *)
(***************************************************************************)
GuardLimit == 200

\* 0-based reads of the datagram.
ByteAt(bytes, offset) == bytes[offset + 1]

u16(bytes, offset) == ByteAt(bytes, offset) * 256 + ByteAt(bytes, offset + 1)

Slice(bytes, from, to) == SubSeq(bytes, from + 1, to)

\* One pass through the body of decodeName's loop. st holds the locals; guard is
\* already incremented by the loop test; status is "run", "break" or "throw".
DecodeStep(bytes, st) ==
    IF st.offset >= Len(bytes) THEN [st EXCEPT !.status = "throw"]
    ELSE LET len == ByteAt(bytes, st.offset)
             labelEnd == st.offset + 1 + len
         IN  IF len = 0
             THEN [st EXCEPT !.offset = st.offset + 1, !.status = "break"]
             ELSE IF len >= 192
             THEN IF st.offset + 1 >= Len(bytes) THEN [st EXCEPT !.status = "throw"]
                  ELSE [st EXCEPT !.offset = (len % 64) * 256 + ByteAt(bytes, st.offset + 1),
                                  !.jumped = TRUE,
                                  !.jumpNext = IF st.jumped THEN st.jumpNext ELSE st.offset + 2]
             ELSE IF labelEnd > Len(bytes) THEN [st EXCEPT !.status = "throw"]
             ELSE [st EXCEPT !.offset = labelEnd,
                             !.labels = st.labels \o Slice(bytes, st.offset + 1, labelEnd)
                                                  \o <<CH.dot>>]

DecodeIter_unguarded(bytes, st) ==
    IF st.status # "run" THEN st ELSE DecodeStep(bytes, st)

\* while (guard++ < 200) { body }: the test, the increment and one pass.
DecodeIter(bytes, st) ==
    IF st.status # "run" THEN st
    ELSE IF st.guard < GuardLimit THEN DecodeStep(bytes, [st EXCEPT !.guard = st.guard + 1])
    ELSE [st EXCEPT !.guard = st.guard + 1, !.status = "exhausted"]

\* n turns of the loop, halved so that the evaluation stays shallow.
RECURSIVE DecodeRun(_, _, _)
DecodeRun(bytes, st, n) ==
    IF n = 0 THEN st
    ELSE IF n = 1 THEN DecodeIter(bytes, st)
    ELSE CHOOSE end \in { IF mid.status # "run" THEN mid ELSE DecodeRun(bytes, mid, n - n \div 2) :
                            mid \in { DecodeRun(bytes, st, n \div 2) } } : TRUE

\* decodeName: [ok |-> FALSE] for a throw, or the name and the offset after it.
decodeName(bytes, start) ==
    LET end == DecodeRun(bytes, [offset |-> start, jumped |-> FALSE, jumpNext |-> 0,
                                 labels |-> <<>>, guard |-> 0, status |-> "run"],
                         GuardLimit + 1)
    IN  IF end.status = "throw" \/ end.guard >= GuardLimit THEN [ok |-> FALSE]
        ELSE [ok |-> TRUE,
              name |-> IF end.labels = <<>> THEN <<CH.dot>> ELSE end.labels,
              next |-> IF end.jumped THEN end.jumpNext ELSE end.offset]

QrBit_clear(flags) == 0

QrBit(flags) == (flags \div 32768) % 2

\* parseQuery: the query context, or [ok |-> FALSE] for null.
parseQuery(query) ==
    IF Len(query) < 12 THEN [ok |-> FALSE]
    ELSE IF u16(query, 4) # 1 THEN [ok |-> FALSE]
    ELSE IF QrBit(u16(query, 2)) # 0 THEN [ok |-> FALSE]
    ELSE LET dn == decodeName(query, 12)
         IN  IF ~dn.ok THEN [ok |-> FALSE]
             ELSE IF dn.next + 4 > Len(query) THEN [ok |-> FALSE]
             ELSE [ok |-> TRUE,
                   id |-> u16(query, 0),
                   flags |-> u16(query, 2),
                   qtype |-> u16(query, dn.next),
                   qclass |-> u16(query, dn.next + 2),
                   qname |-> dn.name,
                   questionSection |-> Slice(query, 12, dn.next + 4)]

isSupportedClass_any(qclass) == TRUE

isSupportedClass(qclass) == qclass = QCLASS.IN

RespFlags(rd, rcode) == 32768 + 1024 + rd * 256 + (rcode % 16)

\* buildErrorResponse: a bare header.
buildErrorResponse(id, rcode) ==
    [id |-> id, flags |-> RespFlags(0, rcode), qdcount |-> 0,
     question |-> <<>>, answers |-> <<>>, authority |-> <<>>, authorityName |-> <<>>]

AuthorityFor_always(answers, authorityRecords) ==
    FilterSeq(authorityRecords,
              [r \in {authorityRecords[i] : i \in 1..Len(authorityRecords)} |->
                  r.type = "SOA" \/ r.type = "NS"])

AuthorityFor(answers, authorityRecords) ==
    IF Len(answers) = 0
    THEN FilterSeq(authorityRecords,
                   [r \in {authorityRecords[i] : i \in 1..Len(authorityRecords)} |->
                       r.type = "SOA" \/ r.type = "NS"])
    ELSE <<>>

\* buildSuccessResponse, before the records are laid out as bytes.
buildSuccessResponse(context, recs, authorityRecords, zoneExists, zoneName) ==
    LET answers == FilterSeq(recs, [r \in {recs[i] : i \in 1..Len(recs)} |->
                       shouldAnswerForType(context.qtype, r)])
        rcode == IF zoneExists THEN RCODE.NOERROR ELSE RCODE.NXDOMAIN
    IN  [id |-> context.id,
         flags |-> RespFlags((context.flags \div 256) % 2, rcode),
         qdcount |-> 1,
         question |-> context.questionSection,
         answers |-> answers,
         authority |-> AuthorityFor(answers, authorityRecords),
         authorityName |-> IF zoneName = <<>> THEN context.qname ELSE zoneName]

RcodeOf(response) == response.flags % 16

\* A query as a client lays it out: the 12-byte header, then the question.
Header(id, flags, qdcount) ==
    <<id \div 256, id % 256, flags \div 256, flags % 256, qdcount \div 256, qdcount % 256,
      0, 0, 0, 0, 0, 0>>

Question(name, qtype, qclass) ==
    name \o <<qtype \div 256, qtype % 256, qclass \div 256, qclass % 256>>

(***************************************************************************)
(* Record store reads of the DNS server (prepared statements)              *)
(***************************************************************************)
\* SQLite LIKE: % matches any run, _ any one character, ASCII letters fold case.
RECURSIVE SqlLike(_, _)
SqlLike(text, pattern) ==
    IF pattern = <<>> THEN text = <<>>
    ELSE IF Head(pattern) = CH.pct
         THEN \E k \in 0..Len(text) : SqlLike(SubSeq(text, k + 1, Len(text)), Tail(pattern))
    ELSE IF text = <<>> THEN FALSE
    ELSE IF Head(pattern) = CH.us THEN SqlLike(Tail(text), Tail(pattern))
    ELSE LowerChar(Head(pattern)) = LowerChar(Head(text)) /\ SqlLike(Tail(text), Tail(pattern))

\* zonesBySuffixStmt: WHERE ?1 = name OR ?1 LIKE '%.' || name
zonesBySuffix(doms, bare) ==
    { d.name : d \in { x \in doms : bare = x.name \/ SqlLike(bare, <<CH.pct, CH.dot>> \o x.name) } }

\* resolveZoneName: the first row by LENGTH(name) DESC. Rows of equal length come in
\* an order SQL leaves open, so every longest match is a possible result; <<>> is null.
resolveZoneName(doms, bare) ==
    LET found == zonesBySuffix(doms, bare)
    IN  IF found = {} THEN { <<>> }
        ELSE { normalizeFqdn(n) : n \in { m \in found : \A o \in found : Len(o) <= Len(m) } }

\* A row of table records with the column defaults.
Row(id, domain_id, fqdn, type, ttl, value) ==
    [id |-> id, domain_id |-> domain_id, fqdn |-> fqdn, type |-> type, ttl |-> ttl,
     value |-> value, weight |-> 100, geo_cidrs |-> <<>>, enabled |-> 1,
     healthcheck_url |-> Null, healthy |-> 1, last_health_error |-> Null]

StoredRecord(row) ==
    [id |-> row.id, type |-> row.type, ttl |-> row.ttl, value |-> row.value,
     weight |-> row.weight, geo_cidrs |-> row.geo_cidrs, enabled |-> row.enabled,
     healthcheck_url |-> row.healthcheck_url, healthy |-> row.healthy]

\* getByNameStmt: the rows of a name, CNAME first, then A, AAAA, the others, by id.
getByName(recs, fqdn) ==
    SortRows({ StoredRecord(r) : r \in { x \in recs : x.fqdn = fqdn } })

AuthorityBefore(r1, r2) ==
    \/ r1.type = "SOA" /\ r2.type = "NS"
    \/ r1.type = r2.type /\ r1.id < r2.id

RECURSIVE SortAuthority(_)
SortAuthority(S) ==
    IF S = {} THEN <<>>
    ELSE LET first == CHOOSE r \in S : \A o \in S \ {r} : AuthorityBefore(r, o)
         IN  <<toDnsRecord(first)>> \o SortAuthority(S \ {first})

\* getAuthorityRecords / authorityByZoneStmt: SOA then NS rows stored at the zone name.
getAuthorityRecords(recs, zoneName) ==
    IF zoneName = <<>> THEN <<>>
    ELSE SortAuthority({ r \in recs : r.fqdn = zoneName /\ r.type \in {"SOA", "NS"} })

(***************************************************************************)
(* Lookup cache and DnsRepository.lookup                                   *)
(***************************************************************************)
Put(f, k, v) == [x \in DOMAIN f \cup {k} |-> IF x = k THEN v ELSE f[x]]

CacheHit_ignoreExpiry(c, fqdn, t) == fqdn \in DOMAIN c

CacheHit(c, fqdn, t) == fqdn \in DOMAIN c /\ t < c[fqdn].expiresAt

CacheAfterMiss_always(c, fqdn, t, rows, ttlMs) ==
    Put(c, fqdn, [expiresAt |-> t + ttlMs, records |-> rows])

CacheAfterMiss_healthyOnly(c, fqdn, t, rows, ttlMs) ==
    IF ttlMs > 0
    THEN Put(c, fqdn, [expiresAt |-> t + ttlMs,
                       records |-> SelectSeq(rows, LAMBDA r : r.healthy = 1)])
    ELSE c

CacheAfterMiss_keepFirst(c, fqdn, t, rows, ttlMs) ==
    IF fqdn \in DOMAIN c THEN c ELSE Put(c, fqdn, [expiresAt |-> t + ttlMs, records |-> rows])

CacheAfterMiss(c, fqdn, t, rows, ttlMs) ==
    IF ttlMs > 0 THEN Put(c, fqdn, [expiresAt |-> t + ttlMs, records |-> rows]) ELSE c

NamesOf(recs) == { r.fqdn : r \in recs }

SinceChange(fqdn) == IF fqdn \in DOMAIN changedAt THEN now - changedAt[fqdn] ELSE now

\* What the API server is in the middle of, as far as the store shows it.
ApiView ==
    IF api.pc \in {"ddns.read", "ddns.deleted", "ddns.inserted"}
    THEN [pc |-> api.pc, fqdn |-> api.ddns.fqdn, previous |-> api.previous]
    ELSE [pc |-> api.pc]

\* lookup(name, qtype, clientIp) with its two open choices made: the zone row that
\* came first and the answer the random picks produced. lastLookup keeps the call,
\* the result and what the store and the API handler were at that moment.
lookup(name, qtype, clientIp) ==
    LET fqdn == normalizeFqdn(name)
        bare == normalizeDomain(fqdn)
        hit == CacheHit(cache, fqdn, now)
        rows == IF hit THEN cache[fqdn].records ELSE getByName(records, fqdn)
    IN  \E zoneName \in resolveZoneName(domains, bare) :
        \E selected \in selectRecordsForQuery(rows, qtype, clientIp) :
            /\ cache' = IF hit THEN cache
                        ELSE CacheAfterMiss(cache, fqdn, now, rows, cfg.cacheTtlMs)
            /\ lastLookup' =
                  [op |-> "lookup", at |-> now, fqdn |-> fqdn, qtype |-> qtype,
                   clientIp |-> clientIp, fromCache |-> hit, rows |-> rows,
                   zoneName |-> zoneName, nameExists |-> Len(rows) > 0,
                   records |-> selected,
                   authorityRecords |-> getAuthorityRecords(records, zoneName),
                   fresh |-> rows = getByName(records, fqdn),
                   sinceChange |-> SinceChange(fqdn),
                   age |-> IF hit THEN now - (cache[fqdn].expiresAt - cfg.cacheTtlMs) ELSE 0,
                   updates |-> Len(ddnsUpdates),
                   api |-> ApiView]

\* A call of repository.lookup on its own.
Lookup(name, qtype, clientIp) ==
    /\ lookup(name, qtype, clientIp)
    /\ sent' = [op |-> "none"]
    /\ UNCHANGED <<storeVars, limiter, cfg, now, api, hc, call, histVars>>

(***************************************************************************)
(* Rate limiter (startServer.isAllowed); tokens are kept in thousandths    *)
(***************************************************************************)
\* The environment the model runs under: DNS_RATE_LIMIT_QPS=2, DNS_RATE_LIMIT_BURST=2,
\* DNS_RATE_LIMIT_BLOCK_SECONDS=1 (refill is faster than the block, as with the defaults).
DNS_RATE_LIMIT_QPS == 2

DNS_RATE_LIMIT_BURST == 2

DNS_RATE_LIMIT_BLOCK_SECONDS == 1

Max(a, b) == IF a > b THEN a ELSE b

Min(a, b) == IF a < b THEN a ELSE b

UnknownKey == <<0>>

rateLimitKey(address) == IF address = <<>> THEN UnknownKey ELSE address

BurstTokens == Max(1, DNS_RATE_LIMIT_BURST) * 1000

Refill_none(state, t) == state.tokens

Refill_uncapped(state, t) ==
    state.tokens + Max(0, t - state.last) * Max(1, DNS_RATE_LIMIT_QPS)

Refill(state, t) ==
    Min(BurstTokens, state.tokens + Max(0, t - state.last) * Max(1, DNS_RATE_LIMIT_QPS))

BlockUntil_zero(t) == t

BlockUntil(t) == t + Max(1, DNS_RATE_LIMIT_BLOCK_SECONDS) * 1000

Spend_none(tokens) == tokens

Spend(tokens) == tokens - 1000

isAllowed_open(lim, address, t) == [ok |-> TRUE, limiter |-> lim]

\* isAllowed(address) at time t: the verdict and the limiter table it leaves.
isAllowed(lim, address, t) ==
    LET key == rateLimitKey(address)
        state == IF key \in DOMAIN lim THEN lim[key]
                 ELSE [tokens |-> BurstTokens, last |-> t, blockedUntil |-> 0]
        tokens == Refill(state, t)
    IN  IF t < state.blockedUntil
        THEN [ok |-> FALSE, limiter |-> Put(lim, key, state)]
        ELSE IF tokens < 1000
        THEN [ok |-> FALSE,
              limiter |-> Put(lim, key, [tokens |-> tokens, last |-> t,
                                          blockedUntil |-> BlockUntil(t)])]
        ELSE [ok |-> TRUE,
              limiter |-> Put(lim, key, [tokens |-> Spend(tokens), last |-> t,
                                          blockedUntil |-> state.blockedUntil])]

(***************************************************************************)
(* DNS server loop: the socket's data handler                              *)
(***************************************************************************)
Dropped(address, datagram) ==
    [op |-> "drop", at |-> now, address |-> address, datagram |-> datagram]

Sent(address, datagram, response, stage) ==
    [op |-> "send", at |-> now, address |-> address, datagram |-> datagram,
     response |-> response, stage |-> stage]

\* The address and name texts the codec can lay out (ipv4ToBytes, ipv6ToBytes) and
\* texts standing for values parseSoa, parseTwoPartRdata, parseSrv and parseCaa reject.
DottedQuads == {"127.0.0.1", "192.0.2.1", "192.0.2.2", "192.0.2.3"}

Ipv6Texts == {"::1", "2001:db8::1"}

MalformedValues == {"malformed"}

encodeRdataThrows_never(record) == FALSE

\* encodeRdata throws for this record.
encodeRdataThrows(record) ==
    IF record.type = "A" THEN record.value \notin DottedQuads
    ELSE IF record.type = "AAAA" THEN record.value \notin Ipv6Texts
    ELSE IF record.type \in {"SOA", "MX", "SRV", "CAA"} THEN record.value \in MalformedValues
    ELSE FALSE

\* buildSuccessResponse throws while it lays out the answer or authority records.
EncodeThrows(response) ==
    \/ \E i \in 1..Len(response.answers) : encodeRdataThrows(response.answers[i])
    \/ \E i \in 1..Len(response.authority) : encodeRdataThrows(response.authority[i])

\* The statement of lookup that a failing store makes throw, if it runs.
StoreFaults == {"none", "zone", "rows", "authority"}

\* lookup throws: the zone statement always runs, the rows statement on a cache miss,
\* the authority statement when a zone was found.
LookupThrowsEarly(fqdn, fault) ==
    \/ fault = "zone"
    \/ fault = "rows" /\ ~CacheHit(cache, fqdn, now)

LookupThrowsLate(fqdn, fault) ==
    fault = "authority" /\ resolveZoneName(domains, normalizeDomain(fqdn)) # { <<>> }

\* data(socket, data, port, address): parse, rate check, class check, lookup, reply;
\* whatever lookup or buildSuccessResponse throws is answered SERVFAIL.
DataWith(address, datagram, fault) ==
    LET context == parseQuery(datagram)
        verdict == isAllowed(limiter, address, now)
        fqdn == normalizeFqdn(context.qname)
        servfail == Sent(address, datagram, buildErrorResponse(context.id, RCODE.SERVFAIL), "catch")
    IN  /\ UNCHANGED <<storeVars, cfg, now, api, hc, changedAt>>
        /\ IF ~context.ok
           THEN /\ sent' = Dropped(address, datagram)
                /\ lastLookup' = [op |-> "none"]
                /\ UNCHANGED <<cache, limiter>>
           ELSE /\ limiter' = verdict.limiter
                /\ IF ~verdict.ok
                   THEN /\ sent' = Sent(address, datagram, buildErrorResponse(context.id, RCODE.REFUSED), "rate")
                        /\ lastLookup' = [op |-> "none"]
                        /\ UNCHANGED cache
                   ELSE IF ~isSupportedClass(context.qclass)
                   THEN /\ sent' = Sent(address, datagram, buildErrorResponse(context.id, RCODE.NOTIMP), "class")
                        /\ lastLookup' = [op |-> "none"]
                        /\ UNCHANGED cache
                   ELSE IF fqdn = <<>> \/ LookupThrowsEarly(fqdn, fault)
                   THEN /\ sent' = servfail
                        /\ lastLookup' = [op |-> "none"]
                        /\ UNCHANGED cache
                   ELSE IF LookupThrowsLate(fqdn, fault)
                   THEN /\ sent' = servfail
                        /\ lastLookup' = [op |-> "none"]
                        /\ cache' = IF CacheHit(cache, fqdn, now) THEN cache
                                    ELSE CacheAfterMiss(cache, fqdn, now,
                                                        getByName(records, fqdn), cfg.cacheTtlMs)
                   ELSE /\ lookup(context.qname, context.qtype, address)
                        /\ LET response == buildSuccessResponse(context, lastLookup'.records,
                                               lastLookup'.authorityRecords,
                                               lastLookup'.zoneName # <<>>,
                                               lastLookup'.zoneName)
                           IN  sent' = IF EncodeThrows(response) THEN servfail
                                       ELSE Sent(address, datagram, response, "lookup")

\* The handler with a store that does not fail.
Data(address, datagram) ==
    /\ DataWith(address, datagram, "none")
    /\ UNCHANGED call

\* Time passes.
TimeSteps == {500, 1000}

MaxSeconds == 2

Tick ==
    /\ \E d \in TimeSteps : now + d <= MaxSeconds * 1000 /\ now' = now + d
    /\ UNCHANGED <<storeVars, serverVars, api, hc, call, histVars>>
    /\ NoEvent

\* History: the time of the last commit that changed the rows of each name, and the
\* count of commits.
Track ==
    LET changed == { n \in NamesOf(records) \cup NamesOf(records') :
                       getByName(records', n) # getByName(records, n) }
    IN  /\ changedAt' = [n \in DOMAIN changedAt \cup changed |->
                           IF n \in changed THEN now ELSE changedAt[n]]
        /\ hist' = [hist EXCEPT !.commits = @ + 1]

\* Runs are cut off after MaxCommits statements of the writers.
MaxCommits == 4

CanCommit(n) == hist.commits + n <= MaxCommits

(***************************************************************************)
(* API server: statements on the shared store. The API server is another   *)
(* process than the DNS server; each statement commits on its own.         *)
(***************************************************************************)
DEFAULT_NS_HOST == <<CH.c>>

DEFAULT_NS_IP == "127.0.0.1"

hostToFqdn(host, domain) ==
    LET h == ToLowerCase(Trim(host))
    IN  IF h = <<>> \/ h = <<CH.at>> THEN normalizeFqdn(domain)
        ELSE normalizeFqdn(h \o <<CH.dot>> \o domain)

tokenHash(token) == "sha256:" \o token

SameKey(r, domain_id, fqdn, type, value) ==
    r.domain_id = domain_id /\ r.fqdn = fqdn /\ r.type = type /\ r.value = value

\* insertRecordStmt: INSERT ... ON CONFLICT (domain_id, fqdn, type, value) DO UPDATE.
insertRecord(recs, id, domain_id, fqdn, type, ttl, value, weight, geo_cidrs, enabled, url) ==
    IF \E r \in recs : SameKey(r, domain_id, fqdn, type, value)
    THEN { IF SameKey(r, domain_id, fqdn, type, value)
           THEN [r EXCEPT !.ttl = ttl, !.weight = weight, !.geo_cidrs = geo_cidrs,
                          !.enabled = enabled, !.healthcheck_url = url]
           ELSE r : r \in recs }
    ELSE recs \cup { [Row(id, domain_id, fqdn, type, ttl, value) EXCEPT
                         !.weight = weight, !.geo_cidrs = geo_cidrs,
                         !.enabled = enabled, !.healthcheck_url = url] }

\* insertRecordIfMissingStmt: INSERT OR IGNORE with the column defaults.
insertRecordIfMissing(recs, id, domain_id, fqdn, type, ttl, value) ==
    IF \E r \in recs : SameKey(r, domain_id, fqdn, type, value) THEN recs
    ELSE recs \cup { Row(id, domain_id, fqdn, type, ttl, value) }

BumpRecords(recs) ==
    IF \E r \in recs : r.id = nextId.records
    THEN [nextId EXCEPT !.records = nextId.records + 1]
    ELSE nextId

Ipv4Texts == {"192.0.2.1", "192.0.2.2"}

isIPv4Text_any(ip) == TRUE

\* isIP(ip) === 4 of node:net, on the address texts of the model.
isIPv4Text(ip) == ip \in Ipv4Texts

ApiIdle(last) == [pc |-> "idle", last |-> last]

\* POST /api/dyndns/update up to the first statement of updateDynamicDns: a blank
\* token is refused, the credential is looked up by hash, the effective address (body
\* ip, else the forwarded client address, trimmed) is validated, the current A value read.
DdnsBeginFrom(token, ip) ==
    LET found == { t \in ddnsTokens : t.token_hash = tokenHash(token) }
        ddns == CHOOSE t \in found : TRUE
        current == { r \in records : r.domain_id = ddns.domain_id /\ r.fqdn = ddns.fqdn
                                     /\ r.type = "A" }
    IN  /\ api.pc = "idle"
        /\ CanCommit(2)
        /\ IF token = ""
           THEN api' = ApiIdle([op |-> "ddns", status |-> 400, token |-> token, ip |-> ip])
           ELSE IF found = {} \/ ddns.enabled # 1
           THEN api' = ApiIdle([op |-> "ddns", status |-> 401, token |-> token, ip |-> ip])
           ELSE IF ~isIPv4Text(ip)
           THEN api' = ApiIdle([op |-> "ddns", status |-> 400, token |-> token, ip |-> ip])
           ELSE \E previous \in (IF current = {} THEN {Null} ELSE { r.value : r \in current }) :
                   api' = [pc |-> "ddns.read", ddns |-> ddns, token |-> token, ip |-> ip,
                           previous |-> previous, stored |-> { r.value : r \in current },
                           before |-> [rows |-> current, audits |-> Len(ddnsUpdates)],
                           last |-> api.last]
        /\ UNCHANGED <<storeVars, serverVars, now, hc, histVars>>
        /\ NoEvent

DdnsBegin(token, ip) == DdnsBeginFrom(token, ip) /\ UNCHANGED call

deleteRecordsByNameType_oneValue(recs, domain_id, fqdn, type) ==
    { r \in recs : ~(r.domain_id = domain_id /\ r.fqdn = fqdn /\ r.type = type
                     /\ r.value = "192.0.2.1") }

\* deleteRecordsByNameTypeStmt: DELETE FROM records WHERE domain_id, fqdn and type match.
deleteRecordsByNameType(recs, domain_id, fqdn, type) ==
    { r \in recs : ~(r.domain_id = domain_id /\ r.fqdn = fqdn /\ r.type = type) }

\* deleteRecordsByNameTypeStmt.run(domain_id, fqdn, "A")
DdnsDelete ==
    /\ api.pc = "ddns.read"
    /\ records' = deleteRecordsByNameType(records, api.ddns.domain_id, api.ddns.fqdn, "A")
    /\ api' = [api EXCEPT !.pc = "ddns.deleted"]
    /\ Track
    /\ UNCHANGED <<domains, ddnsTokens, nextId, ddnsUpdates, serverVars, now, hc, call>>
    /\ NoEvent

\* insertRecordStmt.run(domain_id, fqdn, "A", ttl, ip, 100, "", 1, null)
DdnsInsert ==
    /\ api.pc = "ddns.deleted"
    /\ records' = insertRecord(records, nextId.records, api.ddns.domain_id, api.ddns.fqdn,
                               "A", api.ddns.ttl, api.ip, 100, <<>>, 1, Null)
    /\ nextId' = BumpRecords(records')
    /\ api' = [api EXCEPT !.pc = "ddns.inserted"]
    /\ Track
    /\ UNCHANGED <<domains, ddnsTokens, ddnsUpdates, serverVars, now, hc, call>>
    /\ NoEvent

\* insertDdnsUpdateStmt.run(...) and the return of updateDynamicDns.
DdnsAudit ==
    /\ api.pc = "ddns.inserted"
    /\ ddnsUpdates' = Append(ddnsUpdates,
                             [ddns_token_id |-> api.ddns.id, ip |-> api.ip,
                              previous_value |-> api.previous, new_value |-> api.ip])
    /\ api' = ApiIdle([op |-> "ddns", status |-> 200, token |-> api.token,
                       fqdn |-> api.ddns.fqdn, ip |-> api.ip, stored |-> api.stored,
                       previous |-> api.previous, changed |-> api.previous # api.ip])
    /\ UNCHANGED <<domains, records, ddnsTokens, nextId, serverVars, now, hc, call, histVars>>
    /\ NoEvent

Owns(user, domain_id) == \E d \in domains : d.id = domain_id /\ d.user_id = user

\* authenticate(req) found no user for the bearer token.
NoUser == 0

\* What randomToken("ddns") can return: two of its values stand for all.
RandomTokens == {"ddns_1", "ddns_2"}

\* POST /api/domains/:domainId/ddns-tokens. A duplicate hash or a host that does not
\* normalise makes a statement throw, which the handler turns into a 400.
CreateDdnsToken(user, domainId, host, ttl, token) ==
    LET domain == CHOOSE d \in domains : d.id = domainId
        fqdn == hostToFqdn(host, domain.name)
        refused(status) ==
            /\ api' = ApiIdle([op |-> "createDdnsToken", status |-> status])
            /\ UNCHANGED <<ddnsTokens, nextId, histVars>>
    IN  /\ api.pc = "idle" /\ CanCommit(1)
        /\ UNCHANGED <<domains, records, ddnsUpdates, serverVars, now, hc, call>>
        /\ IF user = NoUser THEN refused(401)
           ELSE IF ~Owns(user, domainId) THEN refused(404)
           ELSE IF ttl <= 0 \/ ttl > 86400 THEN refused(400)
           ELSE IF fqdn = <<>> \/ \E t \in ddnsTokens : t.token_hash = tokenHash(token)
           THEN refused(400)
           ELSE /\ ddnsTokens' = ddnsTokens \cup
                      { [id |-> nextId.ddnsTokens, user_id |-> user, domain_id |-> domainId,
                         fqdn |-> fqdn, token_value |-> token,
                         token_hash |-> tokenHash(token), ttl |-> ttl, enabled |-> 1] }
                /\ nextId' = [nextId EXCEPT !.ddnsTokens = @ + 1]
                /\ api' = ApiIdle([op |-> "createDdnsToken", status |-> 201, token |-> token,
                                   fqdn |-> fqdn, ttl |-> ttl])
                /\ Track
        /\ NoEvent

\* GET /api/domains/:domainId/ddns-tokens: the rows of the credentials of a zone of
\* the caller, as listDdnsTokensForDomainStmt selects them.
ListDdnsTokens(user, domainId) ==
    /\ api.pc = "idle"
    /\ IF user = NoUser THEN api' = ApiIdle([op |-> "listDdnsTokens", status |-> 401])
       ELSE IF ~Owns(user, domainId)
       THEN api' = ApiIdle([op |-> "listDdnsTokens", status |-> 404])
       ELSE api' = ApiIdle([op |-> "listDdnsTokens", status |-> 200,
                            tokens |-> { [id |-> t.id, user_id |-> t.user_id,
                                          domain_id |-> t.domain_id, fqdn |-> t.fqdn,
                                          token_value |-> t.token_value, ttl |-> t.ttl,
                                          enabled |-> t.enabled] :
                                           t \in { x \in ddnsTokens : x.domain_id = domainId } }])
    /\ UNCHANGED <<storeVars, serverVars, now, hc, call, histVars>>
    /\ NoEvent

\* DELETE /api/ddns-tokens/:tokenId
DeleteDdnsToken(user, tokenId) ==
    /\ api.pc = "idle" /\ CanCommit(1)
    /\ UNCHANGED <<domains, records, nextId, ddnsUpdates, serverVars, now, hc, call>>
    /\ IF user = NoUser
       THEN /\ api' = ApiIdle([op |-> "deleteDdnsToken", status |-> 401])
            /\ UNCHANGED <<ddnsTokens, histVars>>
       ELSE IF ~\E t \in ddnsTokens : t.id = tokenId /\ Owns(user, t.domain_id)
       THEN /\ api' = ApiIdle([op |-> "deleteDdnsToken", status |-> 404])
            /\ UNCHANGED <<ddnsTokens, histVars>>
       ELSE /\ ddnsTokens' = { t \in ddnsTokens : t.id # tokenId }
            /\ api' = ApiIdle([op |-> "deleteDdnsToken", status |-> 200, id |-> tokenId])
            /\ Track
    /\ NoEvent

\* A statement of updateDynamicDns throws (SQLITE_BUSY while the DNS server's health
\* checker holds the write lock, a full disk): the handler ends there with an internal
\* error; the statements that ran before it stay committed.
DdnsStatementFails ==
    /\ api.pc \in {"ddns.read", "ddns.deleted", "ddns.inserted"}
    /\ api' = ApiIdle([op |-> "ddns", status |-> 500, token |-> api.token, ip |-> api.ip,
                       failedAt |-> api.pc, before |-> api.before])
    /\ UNCHANGED <<storeVars, serverVars, now, hc, call, histVars>>
    /\ NoEvent

\* POST /api/domains/:id/records: one upsert.
CreateRecord(user, domain_id, host, type, ttl, value, weight, geo_cidrs, enabled, url) ==
    LET domain == CHOOSE d \in domains : d.id = domain_id
    IN  /\ api.pc = "idle" /\ CanCommit(1)
        /\ IF ~Owns(user, domain_id)
           THEN /\ api' = ApiIdle([op |-> "createRecord", status |-> 404])
                /\ UNCHANGED <<records, nextId, histVars>>
           ELSE /\ records' = insertRecord(records, nextId.records, domain_id,
                                           hostToFqdn(host, domain.name), type, ttl, value,
                                           weight, geo_cidrs, enabled, url)
                /\ nextId' = BumpRecords(records')
                /\ api' = ApiIdle([op |-> "createRecord", status |-> 201])
                /\ Track
        /\ UNCHANGED <<domains, ddnsTokens, ddnsUpdates, serverVars, now, hc, call>>
        /\ NoEvent

\* DELETE /api/records/:id: any row of a zone the user owns, the SOA included.
DeleteRecord(user, recordId) ==
    /\ api.pc = "idle" /\ CanCommit(1)
    /\ IF \E r \in records : r.id = recordId /\ Owns(user, r.domain_id)
       THEN /\ records' = { r \in records : r.id # recordId }
            /\ api' = ApiIdle([op |-> "deleteRecord", status |-> 200, id |-> recordId])
            /\ Track
       ELSE /\ api' = ApiIdle([op |-> "deleteRecord", status |-> 404, id |-> recordId])
            /\ UNCHANGED <<records, histVars>>
    /\ UNCHANGED <<domains, ddnsTokens, nextId, ddnsUpdates, serverVars, now, hc, call>>
    /\ NoEvent

\* PUT /api/records/:id with host, enabled and healthcheckUrl in the body: type,
\* ttl, value, weight and geo list are taken from the row; the health bit is not a
\* column of updateRecordStmt. A row already at the new name with the same type and
\* value makes the UPDATE fail on the unique index (400).
UpdateRecord(user, recordId, host, enabled, url) ==
    /\ api.pc = "idle" /\ CanCommit(1)
    /\ IF \E r \in records : r.id = recordId /\ Owns(user, r.domain_id)
       THEN LET record == CHOOSE r \in records : r.id = recordId
                domain == CHOOSE d \in domains : d.id = record.domain_id
                fqdn == hostToFqdn(host, domain.name)
            IN  IF \E o \in records : o.id # recordId
                                      /\ SameKey(o, domain.id, fqdn, record.type, record.value)
                THEN /\ api' = ApiIdle([op |-> "updateRecord", status |-> 400, id |-> recordId])
                     /\ UNCHANGED <<records, histVars>>
                ELSE /\ records' = { IF r.id = recordId
                                     THEN [r EXCEPT !.fqdn = fqdn, !.enabled = enabled,
                                                    !.healthcheck_url = url]
                                     ELSE r : r \in records }
                     /\ api' = ApiIdle([op |-> "updateRecord", status |-> 200, id |-> recordId])
                     /\ Track
       ELSE /\ api' = ApiIdle([op |-> "updateRecord", status |-> 404, id |-> recordId])
            /\ UNCHANGED <<records, histVars>>
    /\ UNCHANGED <<domains, ddnsTokens, nextId, ddnsUpdates, serverVars, now, hc, call>>
    /\ NoEvent

\* POST /api/domains: createDomainStmt.run, then ensureDefaultAuthorityRecords, whose
\* three inserts follow as statements of their own.
CreateDomain(user, name) ==
    LET domain == normalizeDomain(name)
    IN  /\ api.pc = "idle" /\ CanCommit(3)
        /\ IF domain = <<>> \/ \E d \in domains : d.name = domain
           THEN /\ api' = ApiIdle([op |-> "createDomain", status |-> 400])
                /\ UNCHANGED <<domains, nextId>>
           ELSE /\ domains' = domains \cup { [id |-> nextId.domains, name |-> domain,
                                              user_id |-> user] }
                /\ nextId' = [nextId EXCEPT !.domains = nextId.domains + 1]
                /\ api' = [pc |-> "domain.created", domainId |-> nextId.domains,
                           domainName |-> domain, last |-> api.last]
        /\ UNCHANGED <<records, ddnsTokens, ddnsUpdates, serverVars, now, hc, call, histVars>>
        /\ NoEvent

\* Record values are opaque strings; a name inside a value is written by ToString.
NsValue(domainName) == ToString(hostToFqdn(DEFAULT_NS_HOST, domainName))

SoaFor(domainName) ==
    NsValue(domainName) \o " hostmaster." \o ToString(normalizeFqdn(domainName))
        \o " 2026110401 3600 900 1209600 300"

EnsureStep(from, to, fqdn, type, value) ==
    /\ api.pc = from
    /\ records' = insertRecordIfMissing(records, nextId.records, api.domainId, fqdn, type,
                                        300, value)
    /\ nextId' = BumpRecords(records')
    /\ api' = IF to = "idle"
              THEN ApiIdle([op |-> "createDomain", status |-> 201, id |-> api.domainId])
              ELSE [api EXCEPT !.pc = to]
    /\ Track
    /\ UNCHANGED <<domains, ddnsTokens, ddnsUpdates, serverVars, now, hc, call>>
    /\ NoEvent

EnsureNs ==
    /\ api.pc = "domain.created"
    /\ EnsureStep("domain.created", "domain.ns", normalizeFqdn(api.domainName), "NS",
                  NsValue(api.domainName))

EnsureSoa ==
    /\ api.pc = "domain.ns"
    /\ EnsureStep("domain.ns", "domain.soa", normalizeFqdn(api.domainName), "SOA",
                  SoaFor(api.domainName))

EnsureNsAddress ==
    /\ api.pc = "domain.soa"
    /\ EnsureStep("domain.soa", "idle", hostToFqdn(DEFAULT_NS_HOST, api.domainName), "A",
                  DEFAULT_NS_IP)

(***************************************************************************)
(* Health checker (DnsRepository.startHealthChecks / runHealthChecks)      *)
(***************************************************************************)
HEALTH_CHECK_INTERVAL_SECONDS == 10

HealthUrl == "http://probe/"

MaxPasses == 1

RECURSIVE SortById(_)
SortById(S) ==
    IF S = {} THEN <<>>
    ELSE LET first == CHOOSE r \in S : \A o \in S : r.id <= o.id
         IN  <<first>> \o SortById(S \ {first})

\* healthTargetsStmt.all(): enabled rows with a non-blank healthcheck_url, in rowid order.
healthTargets(recs) ==
    SortById({ [id |-> r.id, healthcheck_url |-> r.healthcheck_url] :
                 r \in { x \in recs : x.enabled = 1 /\ ~BlankUrl(x.healthcheck_url) } })

\* What a probe can come back with: an HTTP status, or 0 for a rejected fetch.
ProbeResults == {200, 503, 0}

ProbeHealthy(result) == IF result # 0 /\ result < 500 THEN 1 ELSE 0

ProbeError(result) ==
    IF result = 0 THEN "health-check failed"
    ELSE IF result < 500 THEN Null
    ELSE "status:" \o ToString(result)

\* updateHealthStmt.run(healthy, error, id)
updateHealth(recs, healthy, error, id) ==
    { IF r.id = id THEN [r EXCEPT !.healthy = healthy, !.last_health_error = error] ELSE r :
        r \in recs }

ClearCache_keep(c) == c

\* this.cache.clear()
ClearCache(c) == <<>>

RemoveAt(s, i) == SubSeq(s, 1, i - 1) \o SubSeq(s, i + 1, Len(s))

\* The interval timer fires: runHealthChecks reads its targets and awaits the first
\* probe. With no target the pass is over at once.
HcTimerUpTo(limit) ==
    LET targets == healthTargets(records)
    IN  /\ cfg.healthCheckIntervalMs > 0
        /\ Len(hc.passes) < limit /\ CanCommit(Len(targets))
        /\ hc' = IF targets = <<>> THEN hc
                 ELSE [hc EXCEPT !.passes = Append(@, targets)]
        /\ UNCHANGED <<storeVars, serverVars, now, api, histVars>>
        /\ NoEvent

HcTimer == HcTimerUpTo(MaxPasses) /\ UNCHANGED call

\* An awaited probe settles: the health write and the cache clear run in the same turn
\* of the event loop, then the pass awaits its next probe or ends.
HcProbeWrite(i, result) ==
    LET pass == hc.passes[i]
        target == Head(pass)
    IN  /\ records' = updateHealth(records, ProbeHealthy(result), ProbeError(result), target.id)
        /\ cache' = ClearCache(cache)
        /\ hc' = [passes |-> IF Len(pass) = 1 THEN RemoveAt(hc.passes, i)
                             ELSE [hc.passes EXCEPT ![i] = Tail(pass)],
                  lastWrite |-> [op |-> "write", id |-> target.id,
                                 healthy |-> ProbeHealthy(result),
                                 evicted |-> { n \in DOMAIN cache : now < cache[n].expiresAt }]]
        /\ Track
        /\ NoEvent
        /\ UNCHANGED <<domains, ddnsTokens, nextId, ddnsUpdates, limiter, cfg, now, api>>

HcProbeDone(i, result) == HcProbeWrite(i, result) /\ UNCHANGED call

(***************************************************************************)
(* Idle values of the state, for specifications that leave a part unused   *)
(***************************************************************************)
IdleStore ==
    /\ domains = {}
    /\ records = {}
    /\ ddnsTokens = {}
    /\ nextId = [domains |-> 1, records |-> 1]
    /\ ddnsUpdates = <<>>

IdleServer ==
    /\ cache = <<>>
    /\ limiter = <<>>
    /\ cfg = [cacheTtlMs |-> 0, healthCheckIntervalMs |-> 0]
    /\ lastLookup = [op |-> "none"]
    /\ sent = [op |-> "none"]

IdleProcs ==
    /\ now = 0
    /\ api = [pc |-> "idle", last |-> [op |-> "none"]]
    /\ hc = [passes |-> <<>>, lastWrite |-> [op |-> "none"]]

IdleHist ==
    /\ changedAt = <<>>
    /\ hist = [src |-> <<>>, commits |-> 0]

(***************************************************************************)
(* The seeded store and a started server                                   *)
(***************************************************************************)
CACHE_TTL_SECONDS == 1

Fq(name) == name \o <<CH.dot>>

\* Names of the model: zone b stands for example.local, a.b. for api.example.local.,
\* c.b. for ns1.example.local., h.b. for a host that DDNS keeps up to date.
ZoneB == <<CH.b>>

NameAB == <<CH.a, CH.dot, CH.b>>

NameCB == <<CH.c, CH.dot, CH.b>>


SoaValue == "ns1 hostmaster 1 3600 600 1209600 300"

\* seedDefaults: the default zone and its six rows.
SeedRows ==
    { Row(1, 1, Fq(ZoneB), "A", 60, "127.0.0.1"),
      Row(2, 1, Fq(ZoneB), "AAAA", 60, "::1"),
      Row(3, 1, Fq(NameAB), "CNAME", 60, "b."),
      Row(4, 1, Fq(ZoneB), "NS", 300, "c.b."),
      Row(5, 1, Fq(NameCB), "A", 300, "127.0.0.1"),
      Row(6, 1, Fq(ZoneB), "SOA", 300, SoaValue) }

seedDefaults ==
    /\ domains = { [id |-> 1, name |-> ZoneB, user_id |-> Null] }
    /\ records = SeedRows
    /\ ddnsTokens = {}
    /\ nextId = [domains |-> 2, records |-> 7]
    /\ ddnsUpdates = <<>>

\* new DnsRepository(dbPath, cacheTtlSeconds, healthCheckIntervalSeconds)
newRepository(cacheTtlSeconds, healthCheckIntervalSeconds) ==
    /\ cache = <<>>
    /\ cfg = [cacheTtlMs |-> Max(0, cacheTtlSeconds) * 1000,
              healthCheckIntervalMs |-> Max(0, healthCheckIntervalSeconds) * 1000]

\* new DnsRepository(db, ...) inside startServer: empty cache, empty limiter.
startServer ==
    /\ cache = <<>>
    /\ limiter = <<>>
    /\ cfg = [cacheTtlMs |-> Max(0, CACHE_TTL_SECONDS) * 1000,
              healthCheckIntervalMs |-> Max(0, HEALTH_CHECK_INTERVAL_SECONDS) * 1000]
    /\ lastLookup = [op |-> "none"]
    /\ sent = [op |-> "none"]

NoCall == [fn |-> "none"]

ClientA == <<10, 0, 0, 5>>


(***************************************************************************)
(* A store in use: user 1 owns zone h, with a DDNS credential for a.h.     *)
(***************************************************************************)
ZoneH == <<CH.h>>

NameAH == <<CH.a, CH.dot, CH.h>>

UserRows ==
    { Row(7, 2, Fq(ZoneH), "NS", 300, NsValue(ZoneH)),
      Row(8, 2, Fq(ZoneH), "SOA", 300, SoaFor(ZoneH)),
      Row(9, 2, hostToFqdn(DEFAULT_NS_HOST, ZoneH), "A", 300, DEFAULT_NS_IP) }

DdnsToken == "ddns_1"

\* The state after POST /api/domains {domain: h} and POST /api/domains/2/ddns-tokens.
UserStore ==
    /\ domains = { [id |-> 1, name |-> ZoneB, user_id |-> Null],
                   [id |-> 2, name |-> ZoneH, user_id |-> 1] }
    /\ ddnsTokens = { [id |-> 1, user_id |-> 1, domain_id |-> 2, fqdn |-> Fq(NameAH),
                       token_value |-> DdnsToken, token_hash |-> tokenHash(DdnsToken),
                       ttl |-> 60, enabled |-> 1] }
    /\ ddnsUpdates = <<>>

(***************************************************************************)
(* SpecDdns: DDNS updates of a.h. while the DNS server answers lookups     *)
(***************************************************************************)
\* a.h. has an A row already, made by POST /api/domains/2/records.
InitDdns ==
    /\ UserStore
    /\ records = SeedRows \cup UserRows \cup { Row(10, 2, Fq(NameAH), "A", 60, "192.0.2.2") }
    /\ nextId = [domains |-> 3, records |-> 11]
    /\ startServer /\ IdleProcs /\ IdleHist
    /\ call = NoCall

DdnsNames == { Fq(NameAH) }

NextDdns ==
    \/ \E token \in {DdnsToken, "guess"}, ip \in Ipv4Texts \cup {"nonsense"} : DdnsBegin(token, ip)
    \/ DdnsDelete
    \/ DdnsInsert
    \/ DdnsAudit
    \/ \E name \in DdnsNames : Lookup(name, QTYPE.A, ClientA)
    \/ Tick

SpecDdns == InitDdns /\ [][NextDdns]_vars

(***************************************************************************)
(* SpecHealth: the health checker as the only writer, lookups of a.h.      *)
(***************************************************************************)
\* Two A rows of a.h. with a health-check URL, made by POST /api/domains/2/records.
HealthRows ==
    { [Row(10, 2, Fq(NameAH), "A", 60, "192.0.2.1") EXCEPT !.healthcheck_url = HealthUrl],
      [Row(11, 2, Fq(NameAH), "A", 60, "192.0.2.2") EXCEPT !.healthcheck_url = HealthUrl] }

InitHealth ==
    /\ UserStore
    /\ records = SeedRows \cup UserRows \cup HealthRows
    /\ nextId = [domains |-> 3, records |-> 12]
    /\ startServer /\ IdleProcs /\ IdleHist
    /\ call = NoCall

ProbeSettles ==
    \E i \in 1..Len(hc.passes), result \in ProbeResults : HcProbeDone(i, result)

NextHealth ==
    \/ HcTimer
    \/ ProbeSettles
    \/ Lookup(Fq(NameAH), QTYPE.A, ClientA)
    \/ Tick

SpecHealth == InitHealth /\ [][NextHealth]_vars

(***************************************************************************)
(* SpecCache: every writer of the store against the lookup cache           *)
(***************************************************************************)
InitCache == InitHealth

ControlPlaneCreates ==
    CreateRecord(1, 2, <<CH.a>>, "A", 60, "192.0.2.2", 100, <<>>, 0, HealthUrl)

ControlPlaneDeletes == DeleteRecord(1, 10)

DdnsRequest == DdnsBegin(DdnsToken, "192.0.2.1")

NextCache ==
    \/ DdnsRequest
    \/ DdnsDelete
    \/ DdnsInsert
    \/ DdnsAudit
    \/ ControlPlaneCreates
    \/ ControlPlaneDeletes
    \/ HcTimer
    \/ ProbeSettles
    \/ Lookup(Fq(NameAH), QTYPE.A, ClientA)
    \/ Tick

SpecCache == InitCache /\ [][NextCache]_vars

(***************************************************************************)
(* SpecServer: queries against a store the control plane is changing       *)
(***************************************************************************)
ZoneUB == <<CH.us, CH.b>>

EncH == <<1, CH.h, 0>>

EncAH == <<1, CH.a, 1, CH.h, 0>>

EncC == <<1, CH.c, 0>>

EncA_AB == <<1, CH.a, 2, CH.a, CH.b, 0>>

ServerQueries ==
    { Header(7, 256, 1) \o Question(name, qtype, QCLASS.IN) :
        name \in {EncH, EncAH, EncC, EncA_AB}, qtype \in {QTYPE.A} }

InitServer == InitDdns

Query == \E address \in {ClientA, <<>>}, datagram \in ServerQueries :
            Data(address, datagram) /\ UNCHANGED hist

DomainRequest == CreateDomain(1, ZoneUB)

DeleteRequest == \E id \in {8, 10} : DeleteRecord(1, id)

NextServer ==
    \/ Query
    \/ DomainRequest
    \/ EnsureNs
    \/ EnsureSoa
    \/ EnsureNsAddress
    \/ DeleteRequest

SpecServer == InitServer /\ [][NextServer]_vars

(***************************************************************************)
(* SpecParse: the data handler fed with well-formed and malformed datagrams*)
(***************************************************************************)
MaxTail == 4

Headers ==
    { Header(7, flags, qd) : flags \in {0, 256, 32768}, qd \in {0, 1, 2} }

\* Encoded names after the header: root, b., a.b., B., a pointer to itself, a pointer
\* forward to a label, a pointer past the end, a label longer than the rest, half a
\* pointer, and a label with no terminator of its own.
ParseNames ==
    { <<0>>, <<1, CH.b, 0>>, <<1, CH.a, 1, CH.b, 0>>, <<1, CH.B, 0>>,
      <<192, 12>>, <<192, 14, 1, CH.b, 0>>, <<192, 99>>, <<5, CH.b>>, <<192>>, <<1, CH.b>> }

RECURSIVE Tails(_)
Tails(n) ==
    IF n = 0 THEN { <<>> }
    ELSE Tails(n - 1) \cup { t \o <<x>> : t \in { u \in Tails(n - 1) : Len(u) = n - 1 }, x \in {0, 1} }

Datagrams ==
    { h \o n \o t : h \in Headers, n \in ParseNames, t \in Tails(MaxTail) }
      \cup { SubSeq(Header(7, 0, 1), 1, k) : k \in {0, 11} }

\* One datagram is on the wire; the sender may repeat it.
InitParse ==
    /\ seedDefaults /\ startServer /\ IdleProcs /\ IdleHist
    /\ call \in { [fn |-> "udp", datagram |-> d] : d \in Datagrams }

Receive ==
    /\ call.fn = "udp"
    /\ Data(ClientA, call.datagram)
    /\ UNCHANGED hist

NextParse == Receive

SpecParse == InitParse /\ [][NextParse]_vars

(***************************************************************************)
(* SpecRate: one source, well-formed queries, time passing                 *)
(***************************************************************************)
EncB == <<1, CH.b, 0>>

QueryA_b == Header(7, 256, 1) \o Question(EncB, QTYPE.A, QCLASS.IN)

QueryChaos_b == Header(8, 0, 1) \o Question(EncB, QTYPE.A, 3)

RateSources == {ClientA}

RateDatagrams == {QueryA_b, QueryChaos_b}

\* History of a source: when it was first seen, how many of its queries were accepted
\* at that same instant, whether its last query was refused and when the current run
\* of refusals began (-1: never refused).
HistAfter(h, s) ==
    LET key == s.address
        old == IF key \in DOMAIN h.src THEN h.src[key]
               ELSE [first |-> s.at, burst |-> 0, refusing |-> FALSE, blockedAt |-> -1]
        accepted == s.stage # "rate"
    IN  IF s.op # "send" THEN h
        ELSE [h EXCEPT !.src = Put(h.src, key,
                 [first |-> old.first,
                  burst |-> IF accepted /\ s.at = old.first THEN old.burst + 1 ELSE old.burst,
                  refusing |-> ~accepted,
                  blockedAt |-> IF ~accepted /\ ~old.refusing THEN s.at ELSE old.blockedAt])]

DataCounted(address, datagram) ==
    /\ Data(address, datagram)
    /\ hist' = HistAfter(hist, sent')

InitRate ==
    /\ seedDefaults /\ startServer /\ IdleProcs /\ IdleHist
    /\ call = NoCall

NextRate ==
    \/ \E address \in RateSources, datagram \in RateDatagrams : DataCounted(address, datagram)
    \/ Tick

SpecRate == InitRate /\ [][NextRate]_vars

(***************************************************************************)
(* SpecSelect: selectRecordsForQuery applied to bounded row lists          *)
(***************************************************************************)
MaxRows == 2

NoGeo == <<>>

Geo24 == <<[base |-> <<10, 0, 0, 0>>, prefix |-> 24]>>

\* The kinds of stored row the inputs are built from.
SelShapes ==
    << [type |-> "A",     weight |-> 1, geo_cidrs |-> NoGeo, enabled |-> 1, healthcheck_url |-> Null,      healthy |-> 1],
       [type |-> "A",     weight |-> 2, geo_cidrs |-> Geo24, enabled |-> 1, healthcheck_url |-> HealthUrl, healthy |-> 0],
       [type |-> "A",     weight |-> 1, geo_cidrs |-> NoGeo, enabled |-> 0, healthcheck_url |-> Null,      healthy |-> 1],
       [type |-> "AAAA",  weight |-> 1, geo_cidrs |-> NoGeo, enabled |-> 1, healthcheck_url |-> HealthUrl, healthy |-> 1],
       [type |-> "CNAME", weight |-> 3, geo_cidrs |-> NoGeo, enabled |-> 1, healthcheck_url |-> Null,      healthy |-> 0],
       [type |-> "CNAME", weight |-> 1, geo_cidrs |-> Geo24, enabled |-> 0, healthcheck_url |-> Null,      healthy |-> 1],
       [type |-> "TXT",   weight |-> 1, geo_cidrs |-> Geo24, enabled |-> 1, healthcheck_url |-> HealthUrl, healthy |-> 0],
       [type |-> "TXT",   weight |-> 1, geo_cidrs |-> NoGeo, enabled |-> 0, healthcheck_url |-> Null,      healthy |-> 1],
       [type |-> "NS",    weight |-> 1, geo_cidrs |-> NoGeo, enabled |-> 1, healthcheck_url |-> Null,      healthy |-> 1],
       [type |-> "SOA",   weight |-> 1, geo_cidrs |-> NoGeo, enabled |-> 1, healthcheck_url |-> Null,      healthy |-> 1],
       [type |-> "MX",    weight |-> 2, geo_cidrs |-> NoGeo, enabled |-> 1, healthcheck_url |-> Null,      healthy |-> 1],
       [type |-> "CAA",   weight |-> 1, geo_cidrs |-> NoGeo, enabled |-> 1, healthcheck_url |-> Null,      healthy |-> 1],
       [type |-> "SRV",   weight |-> 1, geo_cidrs |-> Geo24, enabled |-> 1, healthcheck_url |-> Null,      healthy |-> 1],
       [type |-> "PTR",   weight |-> 1, geo_cidrs |-> NoGeo, enabled |-> 1, healthcheck_url |-> HealthUrl, healthy |-> 0] >>

ValueOf(id) == "v" \o ToString(id)

SelRow(id, shape) ==
    [id |-> id, type |-> shape.type, ttl |-> 60 * id, value |-> ValueOf(id),
     weight |-> shape.weight, geo_cidrs |-> shape.geo_cidrs, enabled |-> shape.enabled,
     healthcheck_url |-> shape.healthcheck_url, healthy |-> shape.healthy]

SelRowLists ==
    UNION { { SortRows({ SelRow(i, SelShapes[f[i]]) : i \in 1..n }) :
                f \in [1..n -> 1..Len(SelShapes)] } : n \in 0..MaxRows }

UnsupportedQtypes == {99}

SelQtypes ==
    {QTYPE.A, QTYPE.NS, QTYPE.CNAME, QTYPE.SOA, QTYPE.PTR, QTYPE.MX, QTYPE.TXT,
     QTYPE.AAAA, QTYPE.SRV, QTYPE.CAA, QTYPE.ANY} \cup UnsupportedQtypes

SelIps == { <<>>, <<10, 0, 0, 5>>, <<10, 0, 1, 5>> }

InitSelect ==
    /\ IdleStore /\ IdleServer /\ IdleProcs /\ IdleHist
    /\ call \in { [fn |-> "select.in", rows |-> rs, qtype |-> q, clientIp |-> ip, out |-> <<>>] :
                    rs \in SelRowLists, q \in SelQtypes, ip \in SelIps }

SelectStep ==
    /\ call.fn = "select.in"
    /\ \E out \in selectRecordsForQuery(call.rows, call.qtype, call.clientIp) :
           call' = [call EXCEPT !.fn = "selectRecordsForQuery", !.out = out]
    /\ UNCHANGED <<storeVars, serverVars, now, api, hc, histVars>>
    /\ NoEvent

NextSelect == SelectStep

SpecSelect == InitSelect /\ [][NextSelect]_vars

(***************************************************************************)
(* Claims about the selection engine                                       *)
(***************************************************************************)
Selected == call.fn = "selectRecordsForQuery"

CallRowSet == { call.rows[i] : i \in 1..Len(call.rows) }

CallOutSet == { call.out[i] : i \in 1..Len(call.out) }

MultiValuedName ==
    [q \in {QTYPE.NS, QTYPE.SOA, QTYPE.MX, QTYPE.TXT, QTYPE.CAA, QTYPE.SRV, QTYPE.PTR} |->
        IF q = QTYPE.NS THEN "NS" ELSE IF q = QTYPE.SOA THEN "SOA"
        ELSE IF q = QTYPE.MX THEN "MX" ELSE IF q = QTYPE.TXT THEN "TXT"
        ELSE IF q = QTYPE.CAA THEN "CAA" ELSE IF q = QTYPE.SRV THEN "SRV" ELSE "PTR"]

DnsOf(r) == [type |-> r.type, ttl |-> r.ttl, value |-> r.value]

\* C9: selection for qtype A, AAAA or CNAME returns at most one row; selection for a
\* multi-valued qtype (NS, SOA, MX, TXT, CAA, SRV, PTR) returns every enabled row of
\* exactly that type, once each, whatever its geo list, health bit and weight, for
\* every client IP.
C9_SingleOrAll ==
    Selected =>
        /\ call.qtype \in {QTYPE.A, QTYPE.AAAA, QTYPE.CNAME} => Len(call.out) <= 1
        /\ call.qtype \in DOMAIN MultiValuedName =>
              LET want == { r \in CallRowSet :
                              r.enabled = 1 /\ r.type = MultiValuedName[call.qtype] }
              IN  /\ CallOutSet = { DnsOf(r) : r \in want }
                  /\ Len(call.out) = Cardinality(want)

\* C9 witness: a multi-valued query answered with two rows, one of them geo-targeted
\* and unhealthy, for a client outside its CIDR.
C9_Witness ==
    /\ Selected
    /\ call.qtype = QTYPE.TXT
    /\ Len(call.out) = 2
    /\ call.clientIp = <<10, 0, 1, 5>>
    /\ \E r \in CallRowSet : r.type = "TXT" /\ r.healthy = 0 /\ r.geo_cidrs # <<>>

\* C9 witness of the single-answer half: two enabled A candidates, one answer.
C9_WitnessSingle ==
    /\ Selected
    /\ call.qtype = QTYPE.A
    /\ Len(call.out) = 1
    /\ Cardinality({ r \in CallRowSet : r.type = "A" /\ r.enabled = 1 }) = 2

AllowedTypes(q) ==
    IF q = QTYPE.ANY THEN SUPPORTED_RECORD_TYPES
    ELSE IF q = QTYPE.A THEN {"A", "CNAME"}
    ELSE IF q = QTYPE.AAAA THEN {"AAAA", "CNAME"}
    ELSE IF q = QTYPE.CNAME THEN {"CNAME"}
    ELSE IF q \in DOMAIN MultiValuedName THEN {MultiValuedName[q]}
    ELSE {}

\* C10: selection is closed over enabled rows: every selected record is the
\* (type, ttl, value) of an enabled row of the input, and its type is one the qtype
\* allows (the requested type, CNAME for A/AAAA, any type for ANY, none for an
\* unsupported qtype).
C10_ClosedOverEnabled ==
    Selected =>
        \A i \in 1..Len(call.out) :
            /\ \E r \in CallRowSet : r.enabled = 1 /\ DnsOf(r) = call.out[i]
            /\ call.out[i].type \in AllowedTypes(call.qtype)

\* C10 witness: an A query answered with a CNAME while a disabled row is present.
C10_Witness ==
    /\ Selected
    /\ call.qtype = QTYPE.A
    /\ Len(call.out) = 1
    /\ call.out[1].type = "CNAME"
    /\ \E r \in CallRowSet : r.enabled = 0

C8_Short(d) == Len(d) < 12

C8_BadCount(d) == Len(d) >= 12 /\ d[5] * 256 + d[6] # 1

C8_IsResponse(d) == Len(d) >= 12 /\ d[3] >= 128

C8_BadName(d) == Len(d) >= 12 /\ ~decodeName(d, 12).ok

C8_NoRoom(d) == Len(d) >= 12 /\ decodeName(d, 12).ok /\ decodeName(d, 12).next + 4 > Len(d)

C8_Malformed(d) ==
    C8_Short(d) \/ C8_BadCount(d) \/ C8_IsResponse(d) \/ C8_BadName(d) \/ C8_NoRoom(d)

Handled == sent.op \in {"drop", "send"}

\* C8: a malformed datagram is dropped silently. Whenever the datagram the handler last
\* received is shorter than 12 bytes, has QDCOUNT other than 1, has the QR bit set, has
\* a name that does not decode, or has no room for qtype and qclass after the name,
\* the handler sent nothing.
C8_MalformedDropped ==
    (Handled /\ C8_Malformed(sent.datagram)) => sent.op = "drop"

C8_Witness ==
    /\ Handled /\ sent.op = "drop"
    /\ C8_IsResponse(sent.datagram)
    /\ ~C8_Short(sent.datagram) /\ ~C8_BadCount(sent.datagram)
    /\ ~C8_BadName(sent.datagram) /\ ~C8_NoRoom(sent.datagram)

C8_WitnessShort == Handled /\ sent.op = "drop" /\ C8_Short(sent.datagram)

C8_WitnessCount ==
    Handled /\ sent.op = "drop" /\ C8_BadCount(sent.datagram) /\ ~C8_IsResponse(sent.datagram)

C8_WitnessName ==
    /\ Handled /\ sent.op = "drop" /\ C8_BadName(sent.datagram)
    /\ ~C8_BadCount(sent.datagram) /\ ~C8_IsResponse(sent.datagram)

C8_WitnessRoom ==
    /\ Handled /\ sent.op = "drop" /\ C8_NoRoom(sent.datagram)
    /\ ~C8_BadCount(sent.datagram) /\ ~C8_IsResponse(sent.datagram)

C8_WitnessAnswered == Handled /\ sent.op = "send" /\ sent.stage = "lookup"

C7_Refused == sent.op = "send" /\ sent.stage = "rate"

C7_Accepted == sent.op = "send" /\ sent.stage # "rate"

\* C7: a source that sends well-formed queries with no time elapsing has exactly BURST
\* of them accepted and the next one refused; from the refusal that starts a block, no
\* query of that source is accepted before BLOCK_SECONDS have passed.
C7_BurstThenBlocked ==
    \A s \in DOMAIN hist.src :
        /\ hist.src[s].burst <= DNS_RATE_LIMIT_BURST
        /\ (C7_Refused /\ sent.address = s) => RcodeOf(sent.response) = RCODE.REFUSED
        /\ (C7_Refused /\ sent.address = s /\ sent.at = hist.src[s].first)
              => hist.src[s].burst = DNS_RATE_LIMIT_BURST
        /\ (C7_Accepted /\ sent.address = s /\ hist.src[s].blockedAt >= 0)
              => sent.at >= hist.src[s].blockedAt + DNS_RATE_LIMIT_BLOCK_SECONDS * 1000

C7_Witness ==
    /\ C7_Refused /\ sent.address = ClientA /\ ClientA \in DOMAIN hist.src
    /\ sent.at = hist.src[ClientA].first
    /\ hist.src[ClientA].burst = DNS_RATE_LIMIT_BURST

C7_WitnessBlockOver ==
    /\ C7_Accepted /\ sent.address = ClientA /\ ClientA \in DOMAIN hist.src
    /\ hist.src[ClientA].blockedAt >= 0
    /\ sent.at = hist.src[ClientA].blockedAt + DNS_RATE_LIMIT_BLOCK_SECONDS * 1000

C7_WitnessStillBlocked ==
    /\ C7_Refused /\ sent.address = ClientA /\ ClientA \in DOMAIN hist.src
    /\ sent.at = hist.src[ClientA].blockedAt + 500
    /\ ClientA \in DOMAIN limiter /\ Refill(limiter[ClientA], sent.at) >= 1000

LookedUp == lastLookup.op = "lookup"

DdnsDone == api.pc = "idle" /\ api.last.op = "ddns" /\ api.last.status = 200

\* C1: after a DDNS update of name N has completed, the next query for A N gets the new
\* address, and the cache holds no entry for N from before the update. Under SpecDdns
\* the DDNS handler is the only writer, so once an update is complete and none is in
\* progress, a lookup of N must return the one A row with the address of the last
\* update, and a cache entry for N must hold the rows of the store.
C1_DdnsVisibleAtOnce ==
    /\ (LookedUp /\ lastLookup.api.pc = "idle" /\ lastLookup.updates > 0
          /\ lastLookup.fqdn = Fq(NameAH) /\ lastLookup.qtype = QTYPE.A)
       => /\ Len(lastLookup.records) = 1
          /\ lastLookup.records[1].value = ddnsUpdates[lastLookup.updates].new_value
    /\ (DdnsDone /\ api.last.fqdn \in DOMAIN cache)
       => cache[api.last.fqdn].records = getByName(records, api.last.fqdn)

\* C2: the DDNS steps are one transaction. A lookup that reads the store while an update
\* of a name that had an A row is in progress finds an A row for that name.
HasA(rows) == \E i \in 1..Len(rows) : rows[i].type = "A"

C2_DdnsAtomic ==
    (LookedUp /\ ~lastLookup.fromCache
       /\ lastLookup.api.pc \in {"ddns.read", "ddns.deleted", "ddns.inserted"}
       /\ lastLookup.api.fqdn = lastLookup.fqdn /\ lastLookup.api.previous # Null)
    => HasA(lastLookup.rows)

\* The update is complete, no update is running, and the lookup is answered from an
\* entry that was filled before the update began: it still holds row 10.
C1_StaleServed ==
    /\ LookedUp /\ lastLookup.fromCache /\ lastLookup.api.pc = "idle"
    /\ lastLookup.updates > 0 /\ lastLookup.fqdn = Fq(NameAH)
    /\ Len(lastLookup.rows) = 1 /\ lastLookup.rows[1].id = 10
    /\ lastLookup.records[1].value # ddnsUpdates[lastLookup.updates].new_value

\* A lookup falls between the delete and the insert and caches the empty row list.
C2_GapCached ==
    /\ LookedUp /\ ~lastLookup.fromCache /\ lastLookup.api.pc = "ddns.deleted"
    /\ lastLookup.api.previous # Null /\ lastLookup.rows = <<>>
    /\ lastLookup.fqdn \in DOMAIN cache /\ cache[lastLookup.fqdn].records = <<>>

\* C3: a health write takes effect at the next lookup. With the health checker as the
\* only writer, every lookup returns the rows of the store as they are, and every cache
\* entry holds the rows of the store: no entry survives a health write.
C3_HealthVisibleAtOnce ==
    /\ LookedUp => lastLookup.fresh
    /\ \A n \in DOMAIN cache : cache[n].records = getByName(records, n)

\* A probe failed while an unexpired entry for a.h. was cached; the lookup that follows
\* in the same millisecond reads the store and sees healthy = 0.
C3_Witness ==
    /\ hc.lastWrite.op = "write" /\ hc.lastWrite.healthy = 0
    /\ Fq(NameAH) \in hc.lastWrite.evicted
    /\ LookedUp /\ ~lastLookup.fromCache /\ lastLookup.fqdn = Fq(NameAH)
    /\ lastLookup.sinceChange = 0 /\ lastLookup.at > 0
    /\ Fq(NameAH) \in DOMAIN cache
    /\ \E i \in 1..Len(lastLookup.rows) :
          lastLookup.rows[i].id = hc.lastWrite.id /\ lastLookup.rows[i].healthy = 0

\* C4: staleness is bounded by the cache TTL. No lookup is served from an entry that is
\* cache_ttl old or older, and a lookup made cache_ttl or more after the last commit
\* that changed the rows of its name returns the rows of the store.
C4_StalenessBounded ==
    LookedUp =>
        /\ lastLookup.fromCache => lastLookup.age < cfg.cacheTtlMs
        /\ lastLookup.sinceChange >= cfg.cacheTtlMs => lastLookup.fresh

\* A lookup exactly cache_ttl after a change of its name, answered from the store.
C4_Witness ==
    /\ LookedUp /\ lastLookup.fqdn \in DOMAIN changedAt
    /\ lastLookup.sinceChange = cfg.cacheTtlMs
    /\ ~lastLookup.fromCache /\ lastLookup.fresh
    /\ lastLookup.api.pc = "idle" /\ lastLookup.updates > 0

\* Inside the TTL a lookup can be served rows the store no longer has.
C4_WitnessStale ==
    /\ LookedUp /\ lastLookup.fromCache /\ ~lastLookup.fresh
    /\ lastLookup.sinceChange < cfg.cacheTtlMs /\ lastLookup.age > 0

Answered == sent.op = "send" /\ sent.stage = "lookup"

BelowZone(bare, zone) ==
    \/ bare = zone
    \/ /\ Len(bare) > Len(zone)
       /\ SubSeq(bare, Len(bare) - Len(zone) + 1, Len(bare)) = zone
       /\ bare[Len(bare) - Len(zone)] = CH.dot

InSomeZone(fqdn) == \E d \in domains : BelowZone(Front(fqdn), d.name)

\* C5: a query of class IN that passes the rate check and whose name is neither a zone
\* nor below a zone at a label boundary is answered NXDOMAIN with no answer and no
\* authority record.
C5_OutsideZonesNxdomain ==
    (Answered /\ ~InSomeZone(lastLookup.fqdn))
    => /\ RcodeOf(sent.response) = RCODE.NXDOMAIN
       /\ sent.response.answers = <<>>
       /\ sent.response.authority = <<>>

\* The case that works: no zone matches, by label or by pattern.
C5_WitnessNxdomain ==
    /\ Answered /\ ~InSomeZone(lastLookup.fqdn)
    /\ RcodeOf(sent.response) = RCODE.NXDOMAIN

NoRowAnswers ==
    \A i \in 1..Len(lastLookup.rows) :
        lastLookup.rows[i].enabled = 1
            => ~shouldAnswerForType(lastLookup.qtype, toDnsRecord(lastLookup.rows[i]))

\* C6: a query of class IN that passes the rate check, whose name lies in a zone and
\* for which the rows looked up hold no enabled row that answers the qtype, is answered
\* NOERROR with no answer and with the SOA of the zone in the authority section.
C6_NodataCarriesSoa ==
    (Answered /\ InSomeZone(lastLookup.fqdn) /\ NoRowAnswers)
    => /\ RcodeOf(sent.response) = RCODE.NOERROR
       /\ sent.response.answers = <<>>
       /\ \E i \in 1..Len(sent.response.authority) : sent.response.authority[i].type = "SOA"

\* The case that works: the zone still has its SOA.
C6_WitnessNodata ==
    /\ Answered /\ InSomeZone(lastLookup.fqdn) /\ NoRowAnswers
    /\ \E i \in 1..Len(sent.response.authority) : sent.response.authority[i].type = "SOA"

(***************************************************************************)
(* SpecRoute: pickRouted applied to bounded candidate lists                *)
(***************************************************************************)
MaxCandidates == 3

GeoOther24 == <<[base |-> <<10, 0, 1, 0>>, prefix |-> 24]>>

Geo16 == <<[base |-> <<10, 0, 0, 0>>, prefix |-> 16]>>

GeoHostList == <<[base |-> <<192, 168, 0, 0>>, prefix |-> 16], [base |-> <<10, 0, 0, 5>>, prefix |-> 32]>>

GeoLists == {NoGeo, Geo24, GeoOther24, Geo16, GeoHostList}

\* Candidates of one type: a geo list, and either no health check or a failed one.
RouteShapes ==
    { [type |-> "A", weight |-> 1, geo_cidrs |-> g, enabled |-> 1,
       healthcheck_url |-> u, healthy |-> IF u = Null THEN 1 ELSE 0] :
          g \in GeoLists, u \in {Null, HealthUrl} }

RouteLists ==
    UNION { { [i \in 1..n |-> SelRow(i, f[i])] : f \in [1..n -> RouteShapes] } :
              n \in 1..MaxCandidates }

RouteIps == { <<>>, <<10, 0, 0, 5>>, <<10, 0, 1, 5>>, <<10, 1, 0, 5>> }

InitRoute ==
    /\ IdleStore /\ IdleServer /\ IdleProcs /\ IdleHist
    /\ call \in { [fn |-> "route.in", rows |-> rs, clientIp |-> ip, out |-> Null] :
                    rs \in RouteLists, ip \in RouteIps }

RouteStep ==
    /\ call.fn = "route.in"
    /\ \E picked \in pickRouted(call.rows, call.clientIp) :
           call' = [call EXCEPT !.fn = "pickRouted", !.out = picked]
    /\ UNCHANGED <<storeVars, serverVars, now, api, hc, histVars>>
    /\ NoEvent

NextRoute == RouteStep

SpecRoute == InitRoute /\ [][NextRoute]_vars

(***************************************************************************)
(* Claims about geo routing                                                *)
(***************************************************************************)
Routed == call.fn = "pickRouted"

\* Bit k (1 = most significant) of a 32-bit address given as four octets.
AddrBit(ip, k) == (ip[((k - 1) \div 8) + 1] \div (2 ^ (7 - ((k - 1) % 8)))) % 2

\* The address lies in the block: its first prefix bits are those of the base.
InBlock(ip, cidr) == \A k \in 1..cidr.prefix : AddrBit(ip, k) = AddrBit(cidr.base, k)

GeoMatching(rows, ip) ==
    { r \in { rows[i] : i \in 1..Len(rows) } :
        \E j \in 1..Len(r.geo_cidrs) : InBlock(ip, r.geo_cidrs[j]) }

Untargeted(rows) == { r \in { rows[i] : i \in 1..Len(rows) } : r.geo_cidrs = <<>> }

C11_WitnessFallback ==
    /\ Routed
    /\ call.clientIp = <<10, 0, 1, 5>>
    /\ call.out.geo_cidrs = <<>>
    /\ \E i \in 1..Len(call.rows) : call.rows[i].geo_cidrs = Geo24

\* C11 witness of the last resort: only geo rows, none holding the client.
C11_WitnessWholeList ==
    /\ Routed
    /\ call.clientIp = <<10, 1, 0, 5>>
    /\ Untargeted(call.rows) = {}
    /\ GeoMatching(call.rows, call.clientIp) = {}
    /\ Len(call.rows) = 2
    /\ call.out = call.rows[2]

(***************************************************************************)
(* SpecUpdate: DDNS requests against a name with any mix of A rows, the    *)
(* health checker of the DNS server running beside them                    *)
(***************************************************************************)
\* A rows of a.h. made by POST /api/domains/2/records: weighted and geo-targeted,
\* health-checked, disabled.
PriorA ==
    { [Row(10, 2, Fq(NameAH), "A", 300, "192.0.2.1") EXCEPT !.weight = 5, !.geo_cidrs = Geo24],
      [Row(11, 2, Fq(NameAH), "A", 300, "192.0.2.2") EXCEPT !.healthcheck_url = HealthUrl],
      [Row(12, 2, Fq(NameAH), "A", 300, "192.0.2.3") EXCEPT !.enabled = 0] }

\* Rows of a.h. of other types.
OtherTypeRows ==
    { Row(13, 2, Fq(NameAH), "TXT", 300, "v=spf1 -all"),
      Row(14, 2, Fq(NameAH), "AAAA", 300, "2001:db8::1") }

DisabledToken == "ddns_off"

UpdateTokens == {DdnsToken, DisabledToken, "guess", ""}

UpdateIps == Ipv4Texts \cup {"nonsense", "2001:db8::1", ""}

InitUpdate ==
    /\ domains = { [id |-> 1, name |-> ZoneB, user_id |-> Null],
                   [id |-> 2, name |-> ZoneH, user_id |-> 1] }
    /\ ddnsTokens = { [id |-> 1, user_id |-> 1, domain_id |-> 2, fqdn |-> Fq(NameAH),
                       token_value |-> DdnsToken, token_hash |-> tokenHash(DdnsToken),
                       ttl |-> 60, enabled |-> 1],
                      [id |-> 2, user_id |-> 1, domain_id |-> 2, fqdn |-> Fq(NameAH),
                       token_value |-> DisabledToken, token_hash |-> tokenHash(DisabledToken),
                       ttl |-> 60, enabled |-> 0] }
    /\ ddnsUpdates = <<>>
    /\ \E prior \in SUBSET PriorA :
          /\ records = SeedRows \cup UserRows \cup OtherTypeRows \cup prior
          /\ call = [fn |-> "store.before", records |-> records]
    /\ nextId = [domains |-> 3, records |-> 15]
    /\ startServer /\ IdleProcs /\ IdleHist

UpdateRequest == \E token \in UpdateTokens, ip \in UpdateIps : DdnsBegin(token, ip)

NextUpdate ==
    \/ UpdateRequest
    \/ DdnsDelete
    \/ DdnsInsert
    \/ DdnsAudit
    \/ DdnsStatementFails
    \/ HcTimer
    \/ ProbeSettles

SpecUpdate == InitUpdate /\ [][NextUpdate]_vars

(***************************************************************************)
(* Claims about DDNS updates                                               *)
(***************************************************************************)
CredentialOf(token) == CHOOSE t \in ddnsTokens : t.token_hash = tokenHash(token)

BoundA(recs, ddns) ==
    { r \in recs : r.domain_id = ddns.domain_id /\ r.fqdn = ddns.fqdn /\ r.type = "A" }

\* A row without the columns the health checker writes.
Unprobed(r) == [r EXCEPT !.healthy = 1, !.last_health_error = Null]

\* C12: after a successful DDNS update for a credential bound to (zone, fqdn), the store
\* holds exactly one A row for (zone, fqdn), with the new IP, the credential's ttl,
\* weight 100, no geo list, enabled and without a health-check URL, whatever A rows
\* existed before; every other row is as it was before the update (the health columns
\* aside, which the health checker writes).
C12_OneDefaultRow ==
    DdnsDone =>
        LET ddns == CredentialOf(api.last.token)
            mine == BoundA(records, ddns)
        IN  /\ Cardinality(mine) = 1
            /\ \A r \in mine :
                  /\ r.value = api.last.ip
                  /\ r.ttl = ddns.ttl
                  /\ r.weight = 100
                  /\ r.geo_cidrs = <<>>
                  /\ r.enabled = 1
                  /\ r.healthcheck_url = Null
            /\ { Unprobed(r) : r \in records \ mine }
                  = { Unprobed(r) : r \in call.records \ BoundA(call.records, ddns) }

\* C12 witness: an update has replaced three A rows (weighted, health-checked, disabled).
C12_Witness ==
    /\ DdnsDone
    /\ Cardinality(BoundA(call.records, CredentialOf(api.last.token))) = 3
    /\ Cardinality(BoundA(records, CredentialOf(api.last.token))) = 1

\* C12 witness: the first A row of a name that had none.
C12_WitnessFirst ==
    /\ DdnsDone
    /\ BoundA(call.records, CredentialOf(api.last.token)) = {}
    /\ Cardinality(BoundA(records, CredentialOf(api.last.token))) = 1

LastAudit == ddnsUpdates[Len(ddnsUpdates)]

\* C13: a DDNS update returns changed = true exactly when the A value stored for the
\* bound name before the update differs from the new IP (no A row counts as different,
\* with previous value null), and the audit row it appends records that previous value
\* and the new IP. The A values stored before the update are api.last.stored.
C13_ChangedIffDiffers ==
    DdnsDone =>
        /\ api.last.changed <=> (api.last.stored # {api.last.ip})
        /\ LastAudit.new_value = api.last.ip
        /\ LastAudit.previous_value \in
              (IF api.last.stored = {} THEN {Null} ELSE api.last.stored)

\* C13, the divergence: an update that removed an A row reports changed = false.
C13_Misreported ==
    /\ DdnsDone
    /\ ~api.last.changed
    /\ api.last.stored = {"192.0.2.1", "192.0.2.2"}
    /\ { r.value : r \in BoundA(records, CredentialOf(api.last.token)) } = {api.last.ip}

\* C13 where the name has at most one A row before the update: the report is exact,
\* and an update that repeats the stored IP reports changed = false.
C13_ExactForOneValue ==
    (DdnsDone /\ Cardinality(api.last.stored) <= 1) =>
        /\ api.last.changed <=> (api.last.stored # {api.last.ip})
        /\ LastAudit.new_value = api.last.ip
        /\ LastAudit.previous_value =
              (IF api.last.stored = {} THEN Null ELSE CHOOSE v \in api.last.stored : TRUE)

\* A second update with the IP of the first reports no change.
C13_RepeatUnchanged ==
    /\ DdnsDone
    /\ Len(ddnsUpdates) = 2
    /\ ddnsUpdates[1].new_value = ddnsUpdates[2].new_value
    /\ ~api.last.changed

Usable(token) == \E t \in ddnsTokens : t.token_hash = tokenHash(token) /\ t.enabled = 1

\* The request a state of the handler belongs to.
RequestOf(a) == IF a.pc = "idle" THEN a.last ELSE a

\* A step in which the DDNS handler takes up a request.
RequestTaken == api.pc = "idle" /\ api' # api

StoreUntouched == records' = records /\ ddnsUpdates' = ddnsUpdates

\* C14: a DDNS request with a token whose hash matches no credential, or a disabled
\* one, is answered 401; a request with a usable token whose effective IP is not a
\* well-formed IPv4 literal is answered 400; in both cases the handler ends at once, no
\* record row is deleted or inserted and no audit row is appended.
C14_RejectedUntouched ==
    [][ RequestTaken =>
          LET req == RequestOf(api')
          IN  /\ (req.token # "" /\ ~Usable(req.token)) =>
                    /\ api'.pc = "idle" /\ api'.last.status = 401
                    /\ StoreUntouched
              /\ (Usable(req.token) /\ req.ip \notin Ipv4Texts) =>
                    /\ api'.pc = "idle" /\ api'.last.status = 400
                    /\ StoreUntouched ]_vars

Rejected(status) == api.pc = "idle" /\ api.last.op = "ddns" /\ api.last.status = status

\* C14 witness: the disabled credential was refused with a well-formed address, after
\* an update that went through.
C14_Witness ==
    /\ Rejected(401)
    /\ api.last.token = DisabledToken
    /\ api.last.ip \in Ipv4Texts
    /\ Len(ddnsUpdates) = 1

\* C14 witness: an unknown token was refused.
C14_WitnessUnknown == Rejected(401) /\ api.last.token = "guess"

\* C14 witness: an IPv6 literal was refused for the usable credential.
C14_WitnessBadIp ==
    Rejected(400) /\ api.last.token = DdnsToken /\ api.last.ip = "2001:db8::1"

\* C14 witness: no address at all was refused for the usable credential.
C14_WitnessNoIp == Rejected(400) /\ api.last.token = DdnsToken /\ api.last.ip = ""

DdnsFailed == api.pc = "idle" /\ api.last.op = "ddns" /\ api.last.status = 500

\* C15: when a store write fails in the middle of a DDNS update, the caller gets an
\* internal error and the update is rolled back: the A rows of (zone, fqdn) (the health
\* columns aside) and the audit table are as they were when the update started
\* (api.last.before).
C15_FailureRollsBack ==
    DdnsFailed =>
        /\ { Unprobed(r) : r \in BoundA(records, CredentialOf(api.last.token)) }
              = { Unprobed(r) : r \in api.last.before.rows }
        /\ Len(ddnsUpdates) = api.last.before.audits

\* C15, the divergence: the insert failed after the delete, the name is left with no
\* A row at all.
C15_LeftWithoutRows ==
    /\ DdnsFailed
    /\ api.last.failedAt = "ddns.deleted"
    /\ Cardinality(api.last.before.rows) = 3
    /\ BoundA(records, CredentialOf(api.last.token)) = {}

\* C15, the divergence: the audit insert failed, the rows are replaced and the update
\* is in no audit row.
C15_ReplacedUnaudited ==
    /\ DdnsFailed
    /\ api.last.failedAt = "ddns.inserted"
    /\ { r.value : r \in BoundA(records, CredentialOf(api.last.token)) } = {api.last.ip}
    /\ api.last.ip \notin { r.value : r \in api.last.before.rows }
    /\ Len(ddnsUpdates) = 0

(***************************************************************************)
(* SpecToken: DDNS credentials are issued, listed, used and deleted        *)
(***************************************************************************)
\* User 1 owns zone h; no credential has been issued yet.
InitToken ==
    /\ domains = { [id |-> 1, name |-> ZoneB, user_id |-> Null],
                   [id |-> 2, name |-> ZoneH, user_id |-> 1] }
    /\ records = SeedRows \cup UserRows
    /\ ddnsTokens = {}
    /\ ddnsUpdates = <<>>
    /\ nextId = [domains |-> 3, records |-> 10, ddnsTokens |-> 1]
    /\ startServer /\ IdleProcs /\ IdleHist
    /\ call = NoCall

TokenUsers == {1, 2, NoUser}

IssueToken ==
    \E user \in TokenUsers, host \in {<<CH.a>>, <<CH.at>>}, ttl \in {60, 0},
       token \in RandomTokens :
        CreateDdnsToken(user, 2, host, ttl, token)

ReadTokens == \E user \in TokenUsers : ListDdnsTokens(user, 2)

RevokeToken == \E user \in TokenUsers, id \in 1..2 : DeleteDdnsToken(user, id)

PresentToken ==
    \E token \in RandomTokens \cup { tokenHash(t) : t \in RandomTokens }, ip \in Ipv4Texts :
        DdnsBegin(token, ip)

NextToken ==
    \/ IssueToken
    \/ ReadTokens
    \/ RevokeToken
    \/ PresentToken
    \/ DdnsDelete
    \/ DdnsInsert
    \/ DdnsAudit

SpecToken == InitToken /\ [][NextToken]_vars

(***************************************************************************)
(* Claims about stored credentials                                         *)
(***************************************************************************)
\* The text columns of a credential row.
TextColumns(t) == {t.token_value, t.token_hash}

\* C16: the store never holds the cleartext of a DDNS credential: no column of a stored
\* credential row is a token whose hash that row stores, so that no text read from the
\* store authenticates an update.
C16_NoCleartextStored ==
    /\ \A t \in ddnsTokens, token \in RandomTokens :
          t.token_hash = tokenHash(token) => token \notin TextColumns(t)
    /\ \A t \in ddnsTokens : \A text \in TextColumns(t) : ~Usable(text)

\* C16, the divergence: an update went through with the text of column token_value.
C16_SecretReadable ==
    /\ DdnsDone
    /\ \E t \in ddnsTokens : t.token_value = api.last.token /\ t.fqdn = api.last.fqdn

\* C16, the divergence: the listing of a zone's credentials returns a usable secret.
C16_SecretListed ==
    /\ api.pc = "idle" /\ api.last.op = "listDdnsTokens" /\ api.last.status = 200
    /\ \E t \in api.last.tokens : Usable(t.token_value)

\* Only the hash column would be harmless: the stored hash authenticates nothing.
C16_HashNotUsable == \A t \in ddnsTokens : ~Usable(t.token_hash)

(***************************************************************************)
(* SpecNoCache: the server started with DNS_CACHE_TTL_SECONDS at 0 or      *)
(* below, every writer of the store active                                 *)
(***************************************************************************)
ZeroTtls == {0, -1}

InitNoCache ==
    /\ UserStore
    /\ records = SeedRows \cup UserRows \cup HealthRows
    /\ nextId = [domains |-> 3, records |-> 12]
    /\ \E ttl \in ZeroTtls : newRepository(ttl, HEALTH_CHECK_INTERVAL_SECONDS)
    /\ limiter = <<>>
    /\ lastLookup = [op |-> "none"]
    /\ sent = [op |-> "none"]
    /\ IdleProcs /\ IdleHist
    /\ call = NoCall

UncachedLookup == \E name \in {Fq(NameAH), Fq(ZoneB)} : Lookup(name, QTYPE.A, ClientA)

NextNoCache ==
    \/ DdnsRequest
    \/ DdnsDelete
    \/ DdnsInsert
    \/ DdnsAudit
    \/ ControlPlaneCreates
    \/ ControlPlaneDeletes
    \/ HcTimer
    \/ ProbeSettles
    \/ UncachedLookup
    \/ Tick

SpecNoCache == InitNoCache /\ [][NextNoCache]_vars

\* C17: with cache TTL 0 the cache is bypassed: the cache map is empty in every state,
\* and every lookup takes the rows of its name from the store as it is at that moment.
C17_CacheBypassed ==
    /\ cache = <<>>
    /\ LookedUp => (~lastLookup.fromCache /\ lastLookup.fresh)

\* C17 witness: a lookup made in the same millisecond as a delete of the DDNS update
\* in progress has read the store and left the cache empty.
C17_Witness ==
    /\ LookedUp
    /\ cfg.cacheTtlMs = 0
    /\ lastLookup.api.pc = "ddns.deleted"
    /\ lastLookup.sinceChange = 0
    /\ lastLookup.rows = <<>>
    /\ cache = <<>>

\* C17 witness: a lookup long after the start, past probes of the health checker.
C17_WitnessLater ==
    /\ LookedUp /\ lastLookup.at = MaxSeconds * 1000
    /\ hc.lastWrite.op = "write"
    /\ Len(lastLookup.rows) = 2
    /\ cache = <<>>

(***************************************************************************)
(* SpecReply: the data handler with a store that can fail, queries with    *)
(* and without RD, in class IN and CHAOS, for names that can and cannot    *)
(* be answered                                                             *)
(***************************************************************************)
\* Zone h was made by POST /api/domains while DEFAULT_NS_IP held an IPv6 address:
\* ensureDefaultAuthorityRecords stores it as the A value of c.h. unvalidated.
ReplyRows ==
    { Row(7, 2, Fq(ZoneH), "NS", 300, NsValue(ZoneH)),
      Row(8, 2, Fq(ZoneH), "SOA", 300, SoaFor(ZoneH)),
      Row(9, 2, hostToFqdn(DEFAULT_NS_HOST, ZoneH), "A", 300, "2001:db8::1"),
      Row(10, 2, Fq(NameAH), "A", 60, "192.0.2.1") }

EncCH == <<1, CH.c, 1, CH.h, 0>>

EncRoot == <<0>>

\* Queries carry no flag bits (0), or OPCODE 5 with RD and RA (10624).
ReplyId(flags) == IF flags = 0 THEN 7 ELSE 65535

ReplyNames == {EncAH, EncCH, EncC, EncRoot}

\* Every name in class IN and a.h. in class CHAOS with the bits set, a.h. and c. in
\* class IN without.
ReplyDatagrams ==
    { Header(ReplyId(10624), 10624, 1) \o Question(name, QTYPE.A, QCLASS.IN) : name \in ReplyNames }
    \cup { Header(ReplyId(10624), 10624, 1) \o Question(EncAH, QTYPE.A, 3) }
    \cup { Header(ReplyId(0), 0, 1) \o Question(name, QTYPE.A, QCLASS.IN) : name \in {EncAH, EncC} }

InitReply ==
    /\ UserStore
    /\ records = SeedRows \cup ReplyRows
    /\ nextId = [domains |-> 3, records |-> 11]
    /\ startServer /\ IdleProcs /\ IdleHist
    /\ call = [fn |-> "none", fault |-> "none", failed |-> FALSE]

\* One datagram handled; call remembers the fault of the store during it and whether
\* any datagram so far ended in the catch block.
Served(address, datagram, fault) ==
    /\ DataWith(address, datagram, fault)
    /\ call' = [fn |-> "data", fault |-> fault,
                failed |-> call.failed \/ (sent'.op = "send" /\ sent'.stage = "catch")]
    /\ UNCHANGED hist

\* A whole second passes.
SecondPasses ==
    /\ now + 1000 <= MaxSeconds * 1000 /\ now' = now + 1000
    /\ UNCHANGED <<storeVars, serverVars, api, hc, call, histVars>>
    /\ NoEvent

NextReply ==
    \/ \E datagram \in ReplyDatagrams, fault \in StoreFaults : Served(ClientA, datagram, fault)
    \/ SecondPasses

SpecReply == InitReply /\ [][NextReply]_vars

Replied == sent.op = "send"

Bit(flags, n) == (flags \div (2 ^ n)) % 2

\* The header bits every response has, whatever the query: QR=1, OPCODE=0, AA=1,
\* TC=0, RA=0, and the id of the query.
FixedHeader ==
    LET q == parseQuery(sent.datagram)
        f == sent.response.flags
    IN  /\ sent.response.id = q.id
        /\ Bit(f, 15) = 1
        /\ (f \div 2048) % 16 = 0
        /\ Bit(f, 10) = 1
        /\ Bit(f, 9) = 0
        /\ Bit(f, 7) = 0

RdEchoed == Bit(sent.response.flags, 8) = Bit(parseQuery(sent.datagram).flags, 8)

\* C18: every response, whatever its RCODE, carries the id of its query, QR=1, AA=1,
\* OPCODE=0, TC=0, RA=0 and the RD bit of the query.
C18_HeaderEchoesQuery == Replied => (FixedHeader /\ RdEchoed)

\* C18: a NOTIMP reply to a CHAOS query that had RD set carries RD=0.
C18_RdDropped ==
    /\ Replied
    /\ RcodeOf(sent.response) = RCODE.NOTIMP
    /\ Bit(parseQuery(sent.datagram).flags, 8) = 1
    /\ Bit(sent.response.flags, 8) = 0
    /\ FixedHeader

\* C18: the same for REFUSED and for SERVFAIL.
C18_RdDroppedRefused ==
    /\ Replied
    /\ RcodeOf(sent.response) = RCODE.REFUSED
    /\ Bit(parseQuery(sent.datagram).flags, 8) = 1
    /\ Bit(sent.response.flags, 8) = 0

C18_RdDroppedServfail ==
    /\ Replied
    /\ RcodeOf(sent.response) = RCODE.SERVFAIL
    /\ Bit(parseQuery(sent.datagram).flags, 8) = 1
    /\ Bit(sent.response.flags, 8) = 0

\* C18: what does hold: the fixed bits and the id in every response, and RD echoed in
\* every response buildSuccessResponse made (NOERROR, NXDOMAIN).
C18_FixedBitsAndSuccessRd ==
    Replied => (FixedHeader /\ (sent.stage = "lookup" => RdEchoed))

C18_SuccessEchoesRd ==
    /\ Answered
    /\ parseQuery(sent.datagram).flags = 10624
    /\ sent.response.flags = RespFlags(1, RCODE.NOERROR)
    /\ Len(sent.response.answers) = 1

OtherClass(s) == s.op = "send" /\ parseQuery(s.datagram).qclass # QCLASS.IN

\* C19: a query that parses, is not refused by the rate limiter and has a class other
\* than IN is answered NOTIMP, and handling it neither reads the store (no lookup
\* happens, whatever state the store is in) nor touches the cache.
C19_ClassNotImp ==
    [][ (OtherClass(sent') /\ RcodeOf(sent'.response) # RCODE.REFUSED)
            => /\ RcodeOf(sent'.response) = RCODE.NOTIMP
               /\ sent'.response.id = parseQuery(sent'.datagram).id
               /\ lastLookup'.op = "none"
               /\ cache' = cache ]_vars

\* C19 witness: a CHAOS query for a.h. answered NOTIMP while the store was failing and
\* the cache held the rows of a.h. from an earlier IN query.
C19_Witness ==
    /\ OtherClass(sent)
    /\ RcodeOf(sent.response) = RCODE.NOTIMP
    /\ call.fault = "zone"
    /\ lastLookup.op = "none"
    /\ Fq(NameAH) \in DOMAIN cache

\* C19 witness: a CHAOS query of a source over its burst is refused instead.
C19_WitnessRefused ==
    /\ OtherClass(sent)
    /\ RcodeOf(sent.response) = RCODE.REFUSED

\* The step handled a datagram: in SpecReply time stands still exactly in those steps.
ServedStep == now' = now

\* A statement of the store that the lookup of name ran in the step has thrown.
StoreReadFailed(name) ==
    \/ call'.fault = "zone"
    \/ call'.fault = "rows" /\ ~(name \in DOMAIN cache /\ now < cache[name].expiresAt)
    \/ call'.fault = "authority" /\ \E d \in domains : zonesBySuffix({d}, normalizeDomain(name)) # {}

\* An A row of the name holds a text that is no IPv4 address.
ValueNotEncodable(name) ==
    \E r \in records : r.fqdn = name /\ r.type = "A" /\ r.value \notin DottedQuads

\* The lookup or the serialization for the name fails in the step.
ReplyFails(name) == name = <<>> \/ StoreReadFailed(name) \/ ValueNotEncodable(name)

\* C20: every parsed datagram gets a reply; when the store read or the serialization
\* fails for a query of class IN that the rate limiter let through, the reply is
\* SERVFAIL with the id of the query; and after any number of such failures a query
\* for a.h. that the store can serve is answered NOERROR with its address.
C20_FailureAnsweredServfail ==
    [][ ServedStep =>
          LET asked == parseQuery(sent'.datagram)
              name == normalizeFqdn(asked.qname)
              rcode == RcodeOf(sent'.response)
              fails == ReplyFails(name)
          IN  /\ sent'.op = "send"
              /\ sent'.response.id = asked.id
              /\ (asked.qclass = QCLASS.IN /\ rcode # RCODE.REFUSED) =>
                    /\ fails => rcode = RCODE.SERVFAIL
                    /\ (~fails /\ name = Fq(NameAH)) =>
                          /\ rcode = RCODE.NOERROR
                          /\ Len(sent'.response.answers) = 1
                          /\ sent'.response.answers[1].value = "192.0.2.1" ]_vars

\* C20 witness: the statement reading the rows of a.h. threw and the query with id
\* 65535 was answered SERVFAIL.
C20_Witness ==
    /\ Replied
    /\ call.fault = "rows"
    /\ parseQuery(sent.datagram).qname = Fq(NameAH)
    /\ RcodeOf(sent.response) = RCODE.SERVFAIL
    /\ sent.response.id = 65535
    /\ Fq(NameAH) \notin DOMAIN cache

\* C20 witness: the A value of c.h. cannot be encoded; the store did not fail.
C20_WitnessNotEncodable ==
    /\ Replied
    /\ call.fault = "none"
    /\ parseQuery(sent.datagram).qname = hostToFqdn(DEFAULT_NS_HOST, ZoneH)
    /\ RcodeOf(sent.response) = RCODE.SERVFAIL
    /\ lastLookup.op = "lookup"

\* C20 witness: the authority statement threw after the rows were cached.
C20_WitnessAuthority ==
    /\ Replied
    /\ call.fault = "authority"
    /\ RcodeOf(sent.response) = RCODE.SERVFAIL
    /\ Fq(NameAH) \in DOMAIN cache
    /\ cache[Fq(NameAH)].expiresAt = now + cfg.cacheTtlMs

\* C20 witness: a.h. answered a second after a failure.
C20_WitnessServedLater ==
    /\ Answered
    /\ call.failed /\ call.fault = "none"
    /\ now = 1000
    /\ RcodeOf(sent.response) = RCODE.NOERROR
    /\ Len(sent.response.answers) = 1

(***************************************************************************)
(* SpecNoHealth: the server runs with health checks, then is started again *)
(* with HEALTH_CHECK_INTERVAL_SECONDS = 0 on the same store                *)
(***************************************************************************)
\* The process ends and startServer runs again: a new repository with an empty cache
\* and the given interval, no pass of the old process left, the store as it was.
restartServer(healthCheckIntervalSeconds) ==
    /\ cfg.healthCheckIntervalMs > 0
    /\ cache' = <<>>
    /\ limiter' = <<>>
    /\ cfg' = [cacheTtlMs |-> Max(0, CACHE_TTL_SECONDS) * 1000,
               healthCheckIntervalMs |-> Max(0, healthCheckIntervalSeconds) * 1000]
    /\ hc' = [hc EXCEPT !.passes = <<>>]
    /\ UNCHANGED <<storeVars, now, api, call, histVars>>
    /\ NoEvent

StartWithoutChecks == restartServer(0)

NextNoHealth ==
    \/ HcTimer
    \/ ProbeSettles
    \/ StartWithoutChecks
    \/ Lookup(Fq(NameAH), QTYPE.A, ClientA)
    \/ Tick

SpecNoHealth == InitHealth /\ [][NextNoHealth]_vars

ChecksOff == cfg.healthCheckIntervalMs = 0

AsHealthy(rows) == [i \in 1..Len(rows) |-> [rows[i] EXCEPT !.healthy = 1]]

\* C21: with the health-check interval at 0 no pass runs and every record behaves as
\* healthy: the answers a lookup can give are those it could give if every row it read
\* had healthy = 1.
C21_ChecksOffAllHealthy ==
    ChecksOff =>
        /\ hc.passes = <<>>
        /\ LookedUp =>
              selectRecordsForQuery(lastLookup.rows, lastLookup.qtype, lastLookup.clientIp)
                = selectRecordsForQuery(AsHealthy(lastLookup.rows), lastLookup.qtype,
                                        lastLookup.clientIp)

\* C21: the server runs without health checks, a.h. has the A rows 192.0.2.1 (healthy)
\* and 192.0.2.2 (healthy = 0 from a probe of the earlier run), and the lookup can only
\* answer 192.0.2.1.
C21_ExcludedOnHealth ==
    /\ ChecksOff /\ LookedUp
    /\ \E i, j \in 1..Len(lastLookup.rows) :
          /\ lastLookup.rows[i].healthy = 0 /\ lastLookup.rows[i].enabled = 1
          /\ lastLookup.rows[j].healthy = 1
          /\ \A out \in selectRecordsForQuery(lastLookup.rows, lastLookup.qtype, lastLookup.clientIp) :
                out = <<toDnsRecord(lastLookup.rows[j])>>

\* C21: what holds: without health checks no pass runs and no health bit changes.
C21_NoPassNoWrite ==
    [][ ChecksOff => (hc'.passes = <<>> /\ records' = records) ]_vars

\* C21: rows that are all unhealthy are still answered (the filter fails open).
C21_AllUnhealthyAnswered ==
    /\ ChecksOff /\ LookedUp
    /\ Len(lastLookup.rows) = 2
    /\ \A i \in 1..Len(lastLookup.rows) : lastLookup.rows[i].healthy = 0
    /\ Len(lastLookup.records) = 1

(***************************************************************************)
(* SpecDisabled: rows of zone h switched off and on through the API while  *)
(* the DNS server answers queries for the zone                             *)
(***************************************************************************)
\* The NS row of the apex and the A row of a.h.
SwitchedRows == {7, 10}

HostOfRow(id) == IF id = 10 THEN <<CH.a>> ELSE <<CH.at>>

\* PUT /api/records/:id {host, enabled}
SwitchRequest ==
    \E id \in SwitchedRows, enabled \in {0, 1} : UpdateRecord(1, id, HostOfRow(id), enabled, Null)

DisabledQueries ==
    { Header(7, 256, 1) \o Question(EncAH, qtype, QCLASS.IN) : qtype \in {QTYPE.A, QTYPE.NS} }
    \cup { Header(7, 256, 1) \o Question(EncH, QTYPE.NS, QCLASS.IN) }

Asks == \E datagram \in DisabledQueries : Data(ClientA, datagram) /\ UNCHANGED hist

NextDisabled ==
    \/ SwitchRequest
    \/ Asks
    \/ SecondPasses

SpecDisabled == InitDdns /\ [][NextDisabled]_vars

LookedUpRows == { lastLookup.rows[i] : i \in 1..Len(lastLookup.rows) }

\* No answer record comes from a row that was disabled when the rows were read.
AnswersOnlyEnabled ==
    \A i \in 1..Len(sent.response.answers) :
        \E r \in LookedUpRows : r.enabled = 1 /\ DnsOf(r) = sent.response.answers[i]

\* No authority record comes from a row of the zone apex that is disabled in the store.
AuthorityOnlyEnabled ==
    \A i \in 1..Len(sent.response.authority) :
        \E r \in records : /\ r.fqdn = lastLookup.zoneName /\ r.enabled = 1
                           /\ DnsOf(r) = sent.response.authority[i]

\* C22: a record with enabled = false is invisible to resolution: no response carries
\* it in the answer section or in the authority section.
C22_DisabledInvisible == Answered => (AnswersOnlyEnabled /\ AuthorityOnlyEnabled)

\* C22: the NS row of zone h is disabled and a query for a.h. type NS, which has no
\* answer, carries that NS row in its authority section.
C22_DisabledInAuthority ==
    /\ Answered
    /\ lastLookup.fqdn = Fq(NameAH) /\ lastLookup.qtype = QTYPE.NS
    /\ sent.response.answers = <<>>
    /\ \E r \in records : /\ r.id = 7 /\ r.enabled = 0
                          /\ \E i \in 1..Len(sent.response.authority) :
                                sent.response.authority[i] = DnsOf(r)

\* C22: what holds: the answer section never carries a disabled row.
C22_AnswersOnlyEnabled == Answered => AnswersOnlyEnabled

\* C22: the NS query for the apex is answered without the disabled NS row.
C22_ApexNsHidden ==
    /\ Answered
    /\ lastLookup.fqdn = Fq(ZoneH) /\ lastLookup.qtype = QTYPE.NS
    /\ ~lastLookup.fromCache
    /\ \E r \in records : r.id = 7 /\ r.enabled = 0
    /\ sent.response.answers = <<>>

(***************************************************************************)
(* SpecCase: lookups of the same names written in different letter case,   *)
(* with and without the trailing dot                                       *)
(***************************************************************************)
\* a.h. (in zone h) and b.a. (in no zone), as written by different clients.
RawNames ==
    { <<CH.a, CH.dot, CH.h, CH.dot>>, <<CH.A, CH.dot, CH.h, CH.dot>>, <<CH.A, CH.dot, CH.h>>,
      <<CH.b, CH.dot, CH.a, CH.dot>>, <<CH.B, CH.dot, CH.A>> }

InitCase ==
    /\ UserStore
    /\ records = SeedRows \cup UserRows \cup { Row(10, 2, Fq(NameAH), "A", 60, "192.0.2.2") }
    /\ nextId = [domains |-> 3, records |-> 11]
    /\ startServer /\ IdleProcs /\ IdleHist
    /\ call = [fn |-> "none", name |-> <<>>, before |-> <<>>]

\* repository.lookup with the name as the client wrote it; call keeps that name and
\* the name of the lookup before.
RawLookup ==
    \E name \in RawNames :
        /\ lookup(name, QTYPE.A, ClientA)
        /\ call' = [fn |-> "lookup", name |-> name, before |-> call.name]
        /\ sent' = [op |-> "none"]
        /\ UNCHANGED <<storeVars, limiter, cfg, now, api, hc, histVars>>

NextCase ==
    \/ RawLookup
    \/ ControlPlaneDeletes
    \/ SecondPasses

SpecCase == InitCase /\ [][NextCase]_vars

\* Two spellings of one name: equal once letters are folded and a trailing dot dropped.
Folded(name) == ToLowerCase(IF Last(name) = CH.dot THEN Front(name) ELSE name)

\* What a lookup of the name can produce in the current state: the cache key, the
\* zones resolved, the possible answers and the RCODEs buildSuccessResponse derives.
OutcomesOf(name, qtype) ==
    LET fqdn == normalizeFqdn(name)
        rows == IF CacheHit(cache, fqdn, now) THEN cache[fqdn].records
                ELSE getByName(records, fqdn)
        zones == resolveZoneName(domains, normalizeDomain(fqdn))
    IN  [key |-> fqdn,
         zones |-> zones,
         answers |-> selectRecordsForQuery(rows, qtype, ClientA),
         rcodes |-> { IF z # <<>> THEN RCODE.NOERROR ELSE RCODE.NXDOMAIN : z \in zones }]

\* C23: qnames are case-insensitive: in every state, two names that differ only in
\* letter case or in the trailing dot have the same cache key, the same zone, the same
\* possible answers and the same RCODE, for qtype A and NS.
C23_CaseInsensitive ==
    \A n1 \in RawNames, n2 \in RawNames, qtype \in {QTYPE.A, QTYPE.NS} :
        Folded(n1) = Folded(n2) => OutcomesOf(n1, qtype) = OutcomesOf(n2, qtype)

\* C23 witness: A.h asked right after a.h. is served from the one cache entry a.h.
\* made, with the A row of the name.
C23_Witness ==
    /\ LookedUp
    /\ call.name = <<CH.A, CH.dot, CH.h>> /\ call.before = <<CH.a, CH.dot, CH.h, CH.dot>>
    /\ lastLookup.fromCache
    /\ DOMAIN cache = { Fq(NameAH) }
    /\ lastLookup.zoneName = Fq(ZoneH)
    /\ Len(lastLookup.records) = 1

\* C23 witness: B.A, in no zone, has no zone and no rows.
C23_WitnessNoZone ==
    /\ LookedUp
    /\ call.name = <<CH.B, CH.dot, CH.A>>
    /\ lastLookup.fqdn = <<CH.b, CH.dot, CH.a, CH.dot>>
    /\ lastLookup.zoneName = <<>>

(***************************************************************************)
(* More claims about the selection engine (SpecSelect)                     *)
(***************************************************************************)
EnabledOfType(type) == { r \in CallRowSet : r.enabled = 1 /\ r.type = type }

RequestedType ==
    IF call.qtype = QTYPE.A THEN "A" ELSE IF call.qtype = QTYPE.AAAA THEN "AAAA" ELSE "CNAME"

\* C24: for qtype A, AAAA or CNAME, a name with an enabled CNAME row is answered with
\* exactly one of its enabled CNAME rows and never with an A or AAAA row; a name
\* without one is answered with one enabled row of exactly the requested type, or
\* with nothing when it has none.
C24_CnameFirst ==
    (Selected /\ call.qtype \in {QTYPE.A, QTYPE.AAAA, QTYPE.CNAME}) =>
        LET from == IF EnabledOfType("CNAME") # {} THEN EnabledOfType("CNAME")
                    ELSE EnabledOfType(RequestedType)
        IN  IF from = {} THEN call.out = <<>>
            ELSE /\ Len(call.out) = 1
                 /\ \E r \in from : call.out[1] = DnsOf(r)

\* C24 witness: an A query for a name with an enabled A row and an enabled CNAME row
\* is answered with the CNAME row.
C24_Witness ==
    /\ Selected /\ call.qtype = QTYPE.A
    /\ EnabledOfType("A") # {} /\ EnabledOfType("CNAME") # {}
    /\ Len(call.out) = 1 /\ call.out[1].type = "CNAME"

\* C24 witness: a disabled CNAME row does not hide the AAAA row.
C24_WitnessDisabledCname ==
    /\ Selected /\ call.qtype = QTYPE.AAAA
    /\ \E r \in CallRowSet : r.type = "CNAME" /\ r.enabled = 0
    /\ Len(call.out) = 1 /\ call.out[1].type = "AAAA"

\* C24 witness: an AAAA query for a name with A rows only has no answer.
C24_WitnessEmpty ==
    /\ Selected /\ call.qtype = QTYPE.AAAA
    /\ EnabledOfType("A") # {} /\ EnabledOfType("AAAA") = {} /\ EnabledOfType("CNAME") = {}
    /\ call.out = <<>>

(***************************************************************************)
(* SpecHealthPick: pickRouted applied to candidates with every combination *)
(* of health-check URL and health bit                                      *)
(***************************************************************************)
\* No URL, a blank URL and a URL, each with either health bit.
HealthShapes ==
    { [type |-> "A", weight |-> 1, geo_cidrs |-> g, enabled |-> 1,
       healthcheck_url |-> u, healthy |-> h] :
          g \in {NoGeo, Geo24}, u \in {Null, " ", HealthUrl}, h \in {0, 1} }

HealthLists ==
    UNION { { [i \in 1..n |-> SelRow(i, f[i])] : f \in [1..n -> HealthShapes] } :
              n \in 1..MaxCandidates }

InitHealthPick ==
    /\ IdleStore /\ IdleServer /\ IdleProcs /\ IdleHist
    /\ call \in { [fn |-> "route.in", rows |-> rs, clientIp |-> ip, out |-> Null] :
                    rs \in HealthLists, ip \in { <<>>, <<10, 0, 0, 5>>, <<10, 0, 1, 5>> } }

NextHealthPick == RouteStep

SpecHealthPick == InitHealthPick /\ [][NextHealthPick]_vars

\* The pool the geo filter leaves, by the rule of C11.
GeoFiltered ==
    LET all == { call.rows[i] : i \in 1..Len(call.rows) }
        geo == GeoMatching(call.rows, call.clientIp)
        plain == Untargeted(call.rows)
    IN  IF call.clientIp = <<>> THEN all
        ELSE IF geo # {} THEN geo
        ELSE IF plain # {} THEN plain
        ELSE all

HasUrl(r) == r.healthcheck_url \notin {Null, "", " "}

FailedCheck(r) == HasUrl(r) /\ r.healthy = 0

\* C25: the health filter runs on the geo-filtered pool and fails open: the winner is
\* a row of that pool; a row with a health-check URL and healthy = 0 wins only when
\* every row of the pool is such a row; and a row of the pool without a URL can win
\* whatever its health bit.
C25_HealthFailOpen ==
    Routed =>
        /\ call.out \in GeoFiltered
        /\ FailedCheck(call.out) => \A r \in GeoFiltered : FailedCheck(r)
        /\ \A r \in GeoFiltered : ~HasUrl(r) => r \in pickRouted(call.rows, call.clientIp)

\* C25 witness: the only row whose geo list holds the client failed its check; it wins
\* although a healthy untargeted row exists.
C25_Witness ==
    /\ Routed
    /\ call.clientIp = <<10, 0, 0, 5>>
    /\ FailedCheck(call.out) /\ call.out.geo_cidrs = Geo24
    /\ \E i \in 1..Len(call.rows) :
          call.rows[i].geo_cidrs = NoGeo /\ call.rows[i].healthy = 1

\* C25 witness: a row without URL and with healthy = 0 wins over a row that passed
\* its check.
C25_WitnessNoUrl ==
    /\ Routed
    /\ call.out.healthcheck_url = Null /\ call.out.healthy = 0
    /\ \E r \in GeoFiltered : HasUrl(r) /\ r.healthy = 1

\* C25 witness: a failed row is passed over for a row of the same pool.
C25_WitnessExcluded ==
    /\ Routed
    /\ Cardinality(GeoFiltered) = 3
    /\ Cardinality({ r \in GeoFiltered : FailedCheck(r) }) = 2
    /\ ~FailedCheck(call.out)

(***************************************************************************)
(* SpecWeighted: pickWeighted applied to bounded pools, one draw each      *)
(***************************************************************************)
WeightsUsed == {1, 2, 3}

\* Pools in id-ascending order, as getByNameStmt and the filters leave them.
WeightedPools ==
    UNION { { [i \in 1..n |-> [SelRow(i, SelShapes[1]) EXCEPT !.weight = w[i]]] :
                w \in [1..n -> WeightsUsed] } : n \in 1..MaxCandidates }

InitWeighted ==
    /\ IdleStore /\ IdleServer /\ IdleProcs /\ IdleHist
    /\ call \in { [fn |-> "weighted.in", rows |-> rs, roll |-> -1, out |-> Null] :
                    rs \in WeightedPools }

\* pickWeighted(records): roll = Math.floor(Math.random() * total), then the walk.
WeightedStep ==
    /\ call.fn = "weighted.in"
    /\ \E roll \in 0..(TotalWeight(call.rows) - 1) :
           call' = [call EXCEPT !.fn = "pickWeighted", !.roll = roll,
                                !.out = WalkWeighted(call.rows, roll)]
    /\ UNCHANGED <<storeVars, serverVars, now, api, hc, histVars>>
    /\ NoEvent

NextWeighted == WeightedStep

SpecWeighted == InitWeighted /\ [][NextWeighted]_vars

Drawn == call.fn = "pickWeighted"

RECURSIVE WeightBefore(_, _)
WeightBefore(rows, i) == IF i = 1 THEN 0 ELSE WeightBefore(rows, i - 1) + rows[i - 1].weight

\* C26: weighted pick over a pool with weights w_i >= 1 in id-ascending order: for the
\* draw r the winner is the row i with w_1 + .. + w_(i-1) <= r < w_1 + .. + w_i, and
\* over all draws of [0, sum of weights) row i wins exactly w_i times, so every row of
\* the pool can win and no other row can.
C26_WeightedPick ==
    Drawn =>
        /\ \E i \in 1..Len(call.rows) :
              /\ call.out = call.rows[i]
              /\ WeightBefore(call.rows, i) <= call.roll
              /\ call.roll < WeightBefore(call.rows, i) + call.rows[i].weight
        /\ \A i \in 1..Len(call.rows) :
              Cardinality({ r \in 0..(WeightBefore(call.rows, Len(call.rows))
                                        + call.rows[Len(call.rows)].weight - 1) :
                              WalkWeighted(call.rows, r) = call.rows[i] })
                = call.rows[i].weight

\* C26 witness: weights 1, 3, 2; the draw 4 picks the third row, whose range is [4, 6).
C26_Witness ==
    /\ Drawn
    /\ Len(call.rows) = 3
    /\ call.rows[1].weight = 1 /\ call.rows[2].weight = 3 /\ call.rows[3].weight = 2
    /\ call.roll = 4
    /\ call.out.id = 3

\* C26 witness: the last draw of the first row's range.
C26_WitnessFirst ==
    /\ Drawn
    /\ Len(call.rows) = 2
    /\ call.rows[1].weight = 3
    /\ call.roll = 2
    /\ call.out.id = 1

AddressLike == {"A", "AAAA", "CNAME"}

OutOfType(type) == { i \in 1..Len(call.out) : call.out[i].type = type }

\* The rows of one type that routing can pick from the enabled rows of the input.
RoutedPicks(type) ==
    { DnsOf(p) : p \in pickRouted(OfType(EnabledRows(call.rows), type), call.clientIp) }

Choices(type) == IF EnabledOfType(type) = {} THEN 1 ELSE Cardinality(RoutedPicks(type))

\* C27: for qtype ANY the answer holds, for each of the types A, AAAA and CNAME, no row
\* when the name has no enabled row of the type and otherwise exactly one, a row that
\* geo filter, health filter and weighted pick can choose among the enabled rows of
\* that type alone; and for every other type it holds every enabled row once. The
\* picks are independent: every combination of the picks per type is a possible answer.
C27_AnyPerType ==
    (Selected /\ call.qtype = QTYPE.ANY) =>
        /\ \A type \in AddressLike :
              IF EnabledOfType(type) = {} THEN OutOfType(type) = {}
              ELSE /\ Cardinality(OutOfType(type)) = 1
                   /\ \A i \in OutOfType(type) : call.out[i] \in RoutedPicks(type)
        /\ \A type \in SUPPORTED_RECORD_TYPES \ AddressLike :
              /\ { call.out[i] : i \in OutOfType(type) } = { DnsOf(r) : r \in EnabledOfType(type) }
              /\ Cardinality(OutOfType(type)) = Cardinality(EnabledOfType(type))
        /\ \A i \in 1..Len(call.out) : call.out[i].type \in SUPPORTED_RECORD_TYPES
        /\ Cardinality(selectRecordsForQuery(call.rows, call.qtype, call.clientIp))
              = Choices("A") * Choices("AAAA") * Choices("CNAME")

\* C27 witness: a CNAME row and an A row of one name are both in the ANY answer.
C27_Witness ==
    /\ Selected /\ call.qtype = QTYPE.ANY
    /\ Len(call.out) = 2
    /\ call.out[1].type = "CNAME" /\ call.out[2].type = "A"

\* C27 witness: two enabled A rows, one in the answer: the geo row for a client in
\* its block, although it failed its health check.
C27_WitnessOneOfTwo ==
    /\ Selected /\ call.qtype = QTYPE.ANY
    /\ Cardinality(EnabledOfType("A")) = 2
    /\ Len(call.out) = 1
    /\ call.clientIp = <<10, 0, 0, 5>>
    /\ \E r \in EnabledOfType("A") : r.geo_cidrs = Geo24 /\ r.healthy = 0 /\ call.out[1] = DnsOf(r)

\* C27 witness: the rows of another type are all there, geo list and health bit ignored.
C27_WitnessEveryOther ==
    /\ Selected /\ call.qtype = QTYPE.ANY
    /\ Cardinality(EnabledOfType("TXT")) = 1 /\ Cardinality(EnabledOfType("MX")) = 1
    /\ Len(call.out) = 2

(***************************************************************************)
(* SpecAuthority: SOA and NS rows added to and removed from the apex of    *)
(* zone h while the DNS server answers queries for the zone                *)
(***************************************************************************)
ApexTypes == {"SOA", "NS"}

SecondNs == "b.h."

\* POST /api/domains/2/records {host: "@", type: "NS", value}
AddsApexRow == CreateRecord(1, 2, <<CH.at>>, "NS", 300, SecondNs, 100, <<>>, 1, Null)

\* DELETE /api/records/:id of the NS row and of the SOA row made with the zone.
RemovesApexRow == \E id \in {7, 8} : DeleteRecord(1, id)

AuthorityQueries ==
    { Header(7, 256, 1) \o Question(name, QTYPE.NS, QCLASS.IN) : name \in {EncAH, EncH} }

AuthorityAsks == \E datagram \in AuthorityQueries : Data(ClientA, datagram) /\ UNCHANGED hist

NextAuthority ==
    \/ AddsApexRow
    \/ RemovesApexRow
    \/ AuthorityAsks
    \/ SecondPasses

SpecAuthority == InitDdns /\ [][NextAuthority]_vars

\* The SOA and NS rows the store holds at the name of the zone the lookup resolved.
ApexRows == { r \in records : r.fqdn = lastLookup.zoneName /\ r.type \in ApexTypes }

\* The authority section is the apex rows, each once, SOA rows before NS rows and
\* rows of one type in the order they were inserted.
AuthorityIsApex ==
    LET authority == sent.response.authority
    IN  /\ Len(authority) = Cardinality(ApexRows)
        /\ \A r \in ApexRows : \E i \in 1..Len(authority) : authority[i] = DnsOf(r)
        /\ \A i, j \in 1..Len(authority) :
              i < j => ~(authority[i].type = "NS" /\ authority[j].type = "SOA")
        /\ \A r1, r2 \in ApexRows :
              (r1.type = r2.type /\ r1.id < r2.id) =>
                 \E i, j \in 1..Len(authority) :
                    i < j /\ authority[i] = DnsOf(r1) /\ authority[j] = DnsOf(r2)

\* C28: a response carries authority records only when it has zero answers: with at
\* least one answer the authority section is empty; with zero answers in an existing
\* zone the authority section holds the SOA and NS rows stored at the zone apex, SOA
\* rows before NS rows, with the zone name as owner.
C28_AuthorityOnlyWithoutAnswers ==
    Answered =>
        /\ Len(sent.response.answers) > 0 => sent.response.authority = <<>>
        /\ (sent.response.answers = <<>> /\ lastLookup.zoneName # <<>>) =>
              /\ AuthorityIsApex
              /\ sent.response.authorityName = lastLookup.zoneName
              /\ lastLookup.zoneName = Fq(ZoneH)

\* C28 witness: a query for a.h. type NS has no answer and carries the SOA row of h and
\* then its two NS rows, although the first NS row was inserted before the SOA row.
C28_Witness ==
    /\ Answered
    /\ lastLookup.fqdn = Fq(NameAH) /\ lastLookup.qtype = QTYPE.NS
    /\ sent.response.answers = <<>>
    /\ Len(sent.response.authority) = 3
    /\ sent.response.authority[1].type = "SOA"
    /\ sent.response.authority[2].value = NsValue(ZoneH)
    /\ sent.response.authority[3].value = SecondNs
    /\ sent.response.authorityName = Fq(ZoneH)

\* C28 witness: a query for h. type NS is answered with both NS rows and carries no
\* authority although the apex of h holds SOA and NS rows.
C28_WitnessAnswered ==
    /\ Answered
    /\ lastLookup.fqdn = Fq(ZoneH) /\ lastLookup.qtype = QTYPE.NS
    /\ Len(sent.response.answers) = 2
    /\ Len(lastLookup.authorityRecords) = 3
    /\ sent.response.authority = <<>>

\* C28 witness: the apex of h has lost its rows and the response has neither answers
\* nor authority records.
C28_WitnessBareApex ==
    /\ Answered
    /\ lastLookup.zoneName = Fq(ZoneH)
    /\ sent.response.answers = <<>>
    /\ ApexRows = {}
    /\ sent.response.authority = <<>>

(***************************************************************************)
(* SpecZone: resolveZoneName over every set of zones of a pool and every   *)
(* name of bounded length                                                  *)
(***************************************************************************)
MaxName == 4

NameChars == {CH.a, CH.b, CH.dot}

\* A name as normalizeDomain leaves it, with no empty label.
NoEmptyLabel(name) ==
    /\ name[1] # CH.dot /\ name[Len(name)] # CH.dot
    /\ \A i \in 1..(Len(name) - 1) : ~(name[i] = CH.dot /\ name[i + 1] = CH.dot)

BareNames == { n \in UNION { [1..k -> NameChars] : k \in 1..MaxName } : NoEmptyLabel(n) }

\* Zone names POST /api/domains stores as they are sent: b, ab, a.b, _b, %b, a_b.
ZonePool ==
    << <<CH.b>>, <<CH.a, CH.b>>, <<CH.a, CH.dot, CH.b>>,
       <<CH.us, CH.b>>, <<CH.pct, CH.b>>, <<CH.a, CH.us, CH.b>> >>

ZoneTable(ids) == { [id |-> i, name |-> ZonePool[i], user_id |-> 1] : i \in ids }

InitZone ==
    /\ domains \in { ZoneTable(ids) : ids \in SUBSET (1..Len(ZonePool)) }
    /\ records = {} /\ ddnsTokens = {} /\ ddnsUpdates = <<>>
    /\ nextId = [domains |-> Len(ZonePool) + 1, records |-> 1]
    /\ IdleServer /\ IdleProcs /\ IdleHist
    /\ call \in { [fn |-> "zone.in", nameWithoutDot |-> n, out |-> <<>>] : n \in BareNames }

\* resolveZoneName(nameWithoutDot)
ResolveStep ==
    /\ call.fn = "zone.in"
    /\ \E zoneName \in resolveZoneName(domains, call.nameWithoutDot) :
           call' = [call EXCEPT !.fn = "resolveZoneName", !.out = zoneName]
    /\ UNCHANGED <<storeVars, serverVars, now, api, hc, histVars>>
    /\ NoEvent

NextZone == ResolveStep

SpecZone == InitZone /\ [][NextZone]_vars

Resolved == call.fn = "resolveZoneName"

\* The zones that equal the name or end it at a label boundary.
Qualifying(bare) == { d.name : d \in { x \in domains : BelowZone(bare, x.name) } }

LongestQualifying(bare) ==
    IF Qualifying(bare) = {} THEN <<>>
    ELSE Fq(CHOOSE m \in Qualifying(bare) : \A o \in Qualifying(bare) : Len(o) <= Len(m))

PatternChars == {CH.us, CH.pct}

PlainZones == \A d \in domains : \A i \in 1..Len(d.name) : d.name[i] \notin PatternChars

\* C29: zone resolution returns, for every name and every set of zones, the longest
\* zone name that equals the name or is a suffix of it at a label boundary, and none
\* when no zone qualifies; a zone is never matched on a partial label nor through
\* pattern characters in a zone name.
C29_LongestAtLabelBoundary == Resolved => call.out = LongestQualifying(call.nameWithoutDot)

\* C29: a zone whose name holds _ or % is resolved for a name it is not a suffix of.
C29_MatchedThroughPattern ==
    /\ Resolved /\ call.out # <<>>
    /\ ~BelowZone(call.nameWithoutDot, Front(call.out))

\* C29: zone _b is resolved for a.ab although zone ab exists and ends the name at a
\* label boundary.
C29_PatternBeatsExact ==
    /\ Resolved
    /\ call.nameWithoutDot = <<CH.a, CH.dot, CH.a, CH.b>>
    /\ LongestQualifying(call.nameWithoutDot) = Fq(<<CH.a, CH.b>>)
    /\ call.out = Fq(<<CH.us, CH.b>>)

\* C29: what holds: when no zone name holds a pattern character, the result is the
\* longest zone at a label boundary, and none when there is none.
C29_PlainZonesExact ==
    (Resolved /\ PlainZones) => call.out = LongestQualifying(call.nameWithoutDot)

\* C29: with plain zones, a.ab is resolved to zone ab and not to zone b or a.b.
C29_NoPartialLabel ==
    /\ Resolved /\ PlainZones
    /\ call.nameWithoutDot = <<CH.a, CH.dot, CH.a, CH.b>>
    /\ \E d \in domains : d.name = <<CH.b>>
    /\ call.out = Fq(<<CH.a, CH.b>>)

(***************************************************************************)
(* SpecProbe: health passes over the two rows of a.h. while their owner    *)
(* switches the rows and their health-check URL off and on through the API *)
(***************************************************************************)
\* PUT /api/records/:id {host: "a", enabled, healthcheckUrl}
OwnerSwitches ==
    \E id \in {10, 11}, enabled \in {0, 1}, url \in {Null, HealthUrl} :
        UpdateRecord(1, id, <<CH.a>>, enabled, url)

NextProbe ==
    \/ HcTimer
    \/ ProbeSettles
    \/ OwnerSwitches

SpecProbe == InitHealth /\ [][NextProbe]_vars

\* The rows a pass probes: enabled, with a health-check URL that is not blank.
IsTarget(r) == r.enabled = 1 /\ ~BlankUrl(r.healthcheck_url)

TargetIds(pass) == { pass[k].id : k \in 1..Len(pass) }

\* A pass that starts holds exactly the target rows of the store, each once.
PassOverTargets ==
    (hc'.passes # hc.passes /\ Len(hc'.passes) > Len(hc.passes)) =>
        LET pass == hc'.passes[Len(hc'.passes)]
        IN  /\ TargetIds(pass) = { r.id : r \in { x \in records : IsTarget(x) } }
            /\ Len(pass) = Cardinality(TargetIds(pass))
            /\ \A k \in 1..Len(pass) :
                  \E r \in records : r.id = pass[k].id /\ r.healthcheck_url = pass[k].healthcheck_url

\* A probe that settles on result writes, on the row of its target, healthy = 1 for a
\* status below 500 and healthy = 0 with an error string otherwise.
WritesByStatus ==
    \A i \in 1..Len(hc.passes), result \in ProbeResults :
        HcProbeDone(i, result) =>
            \A r \in records' :
                r.id = Head(hc.passes[i]).id =>
                    /\ r.healthy = 1 <=> (result # 0 /\ result < 500)
                    /\ r.healthy = 1 => r.last_health_error = Null
                    /\ r.healthy = 0 => r.last_health_error # Null

\* The step of the checker leaves every row that is disabled or has no URL as it is.
OthersUntouched ==
    ProbeSettles => \A r \in records : ~IsTarget(r) => r \in records'

\* C30: each health pass probes exactly the enabled rows that have a non-empty
\* healthcheck_url and writes back healthy = true if and only if the probe returned an
\* HTTP status below 500; a transport failure, a timeout or a status of 500 or more
\* writes healthy = false with an error string; rows that are disabled or have no URL
\* are never modified by the checker.
C30_ProbesTargetsOnly == [][PassOverTargets /\ WritesByStatus /\ OthersUntouched]_vars

\* C30: a pass still awaits the probe of a row that its owner has disabled or stripped
\* of its URL since the pass read its targets; the write that follows is by id.
C30_WriteAwaitsDisabledRow ==
    \E i \in 1..Len(hc.passes) :
        \E r \in records : r.id = Head(hc.passes[i]).id /\ ~IsTarget(r)

\* C30: what holds with the owner writing: the targets of a pass and the written bit.
C30_TargetsAndStatus == [][PassOverTargets /\ WritesByStatus]_vars

\* C30: what holds with the checker as the only writer (SpecHealth): rows that are
\* disabled or have no URL are left as they are.
C30_UntouchedWithoutOwner == [][OthersUntouched]_vars

\* C30: a failed probe has written healthy = 0 and its error on a target row.
C30_WitnessFailedProbe ==
    /\ hc.lastWrite.op = "write" /\ hc.lastWrite.healthy = 0
    /\ \E r \in records : /\ r.id = hc.lastWrite.id /\ IsTarget(r)
                          /\ r.healthy = 0 /\ r.last_health_error = "status:503"

(***************************************************************************)
(* SpecBucket: the token bucket of two sources under datagrams and a clock *)
(* that advances by quarters of a second                                   *)
(***************************************************************************)
BucketSources == {ClientA, <<>>}

QuarterSteps == {250, 750}

QuarterPasses ==
    /\ \E d \in QuarterSteps : now + d <= MaxSeconds * 1000 /\ now' = now + d
    /\ UNCHANGED <<storeVars, serverVars, api, hc, call, histVars>>
    /\ NoEvent

\* The source with an address asks for b. in class IN, the one without in class CHAOS.
BucketAsks ==
    \E address \in BucketSources :
        /\ Data(address, IF address = <<>> THEN QueryChaos_b ELSE QueryA_b)
        /\ UNCHANGED hist

NextBucket ==
    \/ BucketAsks
    \/ QuarterPasses

SpecBucket == InitRate /\ [][NextBucket]_vars

\* Tokens are kept in thousandths: 0 <= tokens <= max(1, BURST).
TokensInRange ==
    \A key \in DOMAIN limiter :
        limiter[key].tokens >= 0
        /\ limiter[key].tokens <= Max(1, DNS_RATE_LIMIT_BURST) * 1000

\* The step of a datagram that was answered, seen from the bucket of its source.
BucketStep ==
    sent'.op = "send" =>
        LET key == IF sent'.address = <<>> THEN UnknownKey ELSE sent'.address
            old == IF key \in DOMAIN limiter THEN limiter[key]
                   ELSE [tokens |-> Max(1, DNS_RATE_LIMIT_BURST) * 1000, last |-> now,
                         blockedUntil |-> 0]
            elapsed == IF now > old.last THEN now - old.last ELSE 0
            refilled == Min(Max(1, DNS_RATE_LIMIT_BURST) * 1000,
                            old.tokens + elapsed * Max(1, DNS_RATE_LIMIT_QPS))
            new == limiter'[key]
        IN  IF sent'.stage # "rate"
            THEN /\ now >= old.blockedUntil /\ refilled >= 1000
                 /\ new.tokens = refilled - 1000
                 /\ new.blockedUntil = old.blockedUntil
            ELSE \/ now < old.blockedUntil
                 \/ /\ refilled < 1000
                    /\ new.tokens = refilled
                    /\ new.blockedUntil = now + Max(1, DNS_RATE_LIMIT_BLOCK_SECONDS) * 1000

\* C31: for every source key, after any sequence of datagrams and time advances,
\* 0 <= tokens <= max(1, BURST); a request is accepted only if tokens >= 1 after the
\* refill tokens = min(BURST, tokens + elapsed * QPS), an accepted request lowers
\* tokens by exactly 1, and a request rejected for tokens < 1 sets
\* blocked_until = now + BLOCK_SECONDS.
C31_TokenBucket == []TokensInRange /\ [][BucketStep]_vars

\* C31 witness: a request was rejected with half a token left after the refill and
\* the source is blocked for BLOCK_SECONDS from that moment.
C31_Witness ==
    /\ sent.op = "send" /\ sent.stage = "rate"
    /\ ClientA \in DOMAIN limiter /\ sent.address = ClientA
    /\ limiter[ClientA].tokens = 500
    /\ limiter[ClientA].last = now
    /\ limiter[ClientA].blockedUntil = now + 1000

\* C31 witness: a request was accepted on a partly refilled bucket and took one token.
C31_WitnessAccepted ==
    /\ sent.op = "send" /\ sent.stage # "rate"
    /\ ClientA \in DOMAIN limiter /\ sent.address = ClientA
    /\ limiter[ClientA].tokens = 500 /\ limiter[ClientA].last = now /\ now > 0

\* C31 witness: the refill stopped at the burst size.
C31_WitnessCapped ==
    /\ sent.op = "send" /\ sent.stage # "rate" /\ sent.address = <<>>
    /\ UnknownKey \in DOMAIN limiter
    /\ limiter[UnknownKey].tokens = 1000 /\ now >= 1750
    /\ limiter[UnknownKey].last = now

(***************************************************************************)
(* SpecPipeline: the data handler fed with queries that parse and          *)
(* datagrams that do not, from one source, with a store that may fail      *)
(***************************************************************************)
MaxDatagrams == 4

\* A query for b. in class IN, one in class CHAOS, eleven bytes of a header, and a
\* message with the QR bit set.
PipelineDatagrams ==
    { QueryA_b, QueryChaos_b, SubSeq(Header(9, 0, 1), 1, 11),
      Header(10, 32768, 1) \o Question(EncB, QTYPE.A, QCLASS.IN) }

InitPipeline ==
    /\ seedDefaults /\ startServer /\ IdleProcs /\ IdleHist
    /\ call = [fn |-> "none", received |-> 0, parsed |-> 0, replies |-> 0]

\* One datagram arrives and the handler returns; call counts the datagrams that
\* arrived, those of them that parse, and the calls of socket.send.
Delivered(address, datagram, fault) ==
    /\ call.received < MaxDatagrams
    /\ DataWith(address, datagram, fault)
    /\ call' = [fn |-> "data",
                received |-> call.received + 1,
                parsed |-> call.parsed + (IF parseQuery(datagram).ok THEN 1 ELSE 0),
                replies |-> call.replies + (IF sent'.op = "send" THEN 1 ELSE 0)]
    /\ UNCHANGED hist

Arrives ==
    \E datagram \in PipelineDatagrams, fault \in {"none", "rows"} :
        Delivered(ClientA, datagram, fault)

NextPipeline ==
    \/ Arrives
    \/ SecondPasses

SpecPipeline == InitPipeline /\ [][NextPipeline]_vars

\* The rate check refuses the source at this moment.
SourceRefused(address) ==
    LET key == IF address = <<>> THEN UnknownKey ELSE address
    IN  /\ key \in DOMAIN limiter
        /\ \/ now < limiter[key].blockedUntil
           \/ limiter[key].tokens
                + (now - limiter[key].last) * Max(1, DNS_RATE_LIMIT_QPS) < 1000

\* The step of the handler: parse, then the rate check, then the class check, then
\* the lookup; one response when the datagram parses and none when it does not.
PipelineStep ==
    sent'.op # "none" =>
        LET context == parseQuery(sent'.datagram)
            refused == SourceRefused(sent'.address)
        IN  /\ UNCHANGED <<storeVars, api, hc>>
            /\ IF ~context.ok
               THEN sent'.op = "drop" /\ limiter' = limiter /\ cache' = cache
               ELSE /\ sent'.op = "send"
                    /\ sent'.response.id = context.id
                    /\ IF refused
                       THEN /\ sent'.stage = "rate"
                            /\ RcodeOf(sent'.response) = RCODE.REFUSED
                            /\ cache' = cache
                       ELSE /\ limiter' # limiter
                            /\ IF context.qclass # QCLASS.IN
                               THEN /\ sent'.stage = "class"
                                    /\ RcodeOf(sent'.response) = RCODE.NOTIMP
                                    /\ cache' = cache
                               ELSE /\ sent'.stage \in {"lookup", "catch"}
                                    /\ RcodeOf(sent'.response)
                                          \in {RCODE.NOERROR, RCODE.NXDOMAIN, RCODE.SERVFAIL}

\* As many responses were sent as datagrams that parse arrived.
OneReplyEach == call.replies = call.parsed

\* C32: request handling is a linear pipeline with exactly one response per datagram
\* that parses: the checks run in the order parse, rate check, class check, lookup, so
\* a rate-limited query is answered REFUSED even when its class is not IN, a datagram
\* that fails to parse consumes no rate-limit token, and no datagram is ever answered
\* twice or left with outstanding state.
C32_LinearPipeline == []OneReplyEach /\ [][PipelineStep]_vars

\* C32 witness: a query of class CHAOS from a source out of tokens is answered REFUSED.
C32_Witness ==
    /\ sent.op = "send" /\ sent.stage = "rate"
    /\ sent.datagram = QueryChaos_b
    /\ RcodeOf(sent.response) = RCODE.REFUSED
    /\ call.replies = 3

\* C32 witness: two datagrams that do not parse and then two queries, both answered
\* from the burst of two tokens.
C32_WitnessNoTokenSpent ==
    /\ call.received = 4 /\ call.parsed = 2 /\ call.replies = 2 /\ now = 0
    /\ sent.op = "send" /\ sent.stage = "lookup"
    /\ limiter[ClientA].tokens = 0

\* C32 witness: a datagram that does not parse is dropped while the source is blocked.
C32_WitnessDropped ==
    /\ sent.op = "drop" /\ call.replies = 3 /\ call.received = 4
    /\ now < limiter[ClientA].blockedUntil

(***************************************************************************)
(* Claims about the lookup cache as a frame around the rows of a name      *)
(***************************************************************************)
\* An entry for the name is present and its expiry is in the future.
EntryLive(fqdn) == fqdn \in DOMAIN cache /\ now < cache[fqdn].expiresAt

\* The step of a lookup, seen from the cache: a hit returns the rows of the entry and
\* leaves the cache as it is; a miss or an expired entry returns the rows of the store
\* and leaves an entry with these rows that expires cache_ttl from now.
CacheFrame ==
    lastLookup'.op = "lookup" =>
        LET fqdn == lastLookup'.fqdn
        IN  IF EntryLive(fqdn)
            THEN /\ lastLookup'.rows = cache[fqdn].records
                 /\ lastLookup'.fromCache
                 /\ cache' = cache
            ELSE /\ lastLookup'.rows = getByName(records, fqdn)
                 /\ ~lastLookup'.fromCache
                 /\ fqdn \in DOMAIN cache'
                 /\ cache'[fqdn].records = getByName(records, fqdn)
                 /\ cache'[fqdn].expiresAt = now + cfg.cacheTtlMs
                 /\ \A n \in DOMAIN cache \ {fqdn} : n \in DOMAIN cache' /\ cache'[n] = cache[n]

\* C33: on a cache hit (an entry for the name is present and its expiry is in the
\* future) the stored row list is returned without touching the durable store, and
\* the hit changes neither the entry's expiry nor its rows; only a miss or an expired
\* entry reads the store and (re)inserts the entry with expiry now + cache_ttl.
C33_HitLeavesEntry == [][CacheFrame]_vars

\* C33 witness: a hit returned the rows of the entry although the store holds other
\* rows for the name, and the entry still has the expiry it was inserted with.
C33_Witness ==
    /\ LookedUp /\ lastLookup.fromCache /\ ~lastLookup.fresh
    /\ lastLookup.fqdn \in DOMAIN cache
    /\ cache[lastLookup.fqdn].records = lastLookup.rows
    /\ cache[lastLookup.fqdn].expiresAt = now - lastLookup.age + cfg.cacheTtlMs
    /\ lastLookup.age > 0

\* C33 witness: a lookup a full cache_ttl or more after the start read the store and
\* left an entry with these rows that expires cache_ttl from now.
C33_WitnessExpired ==
    /\ LookedUp /\ ~lastLookup.fromCache /\ now >= cfg.cacheTtlMs /\ now > 0
    /\ lastLookup.fqdn \in DOMAIN cache
    /\ cache[lastLookup.fqdn].expiresAt = now + cfg.cacheTtlMs
    /\ cache[lastLookup.fqdn].records = lastLookup.rows
    /\ lastLookup.sinceChange < now

(***************************************************************************)
(* SpecEntry: lookups of a.h. of several types and from several clients    *)
(* while its owner switches the two rows and the checker probes them       *)
(***************************************************************************)
EntryQtypes == {QTYPE.A, QTYPE.ANY}

EntryLookup == \E qtype \in EntryQtypes : Lookup(Fq(NameAH), qtype, ClientA)

\* PUT /api/records/11 {host: "a", enabled, healthcheckUrl}
OwnerSwitchesOne == \E enabled \in {0, 1} : UpdateRecord(1, 11, <<CH.a>>, enabled, HealthUrl)

NextEntry ==
    \/ EntryLookup
    \/ OwnerSwitchesOne
    \/ HcTimer
    \/ ProbeSettles
    \/ Tick

SpecEntry == InitHealth /\ [][NextEntry]_vars

\* The moment the entry of a name was populated.
PopulatedAt(n) == cache[n].expiresAt - cfg.cacheTtlMs

\* No commit has changed the rows of the name since its entry was populated.
UnchangedSincePopulated(n) == n \notin DOMAIN changedAt \/ changedAt[n] < PopulatedAt(n)

\* The rows the store holds for a name, of every type, enabled or not, in the order
\* of the rows-by-name read.
RowsInStore(n) == SortRows({ StoredRecord(r) : r \in { x \in records : x.fqdn = n } })

\* C34: a cache entry holds the unfiltered rows of its name (all types, enabled or
\* not, with their geo, weight and health fields), so a lookup served from an
\* unexpired entry has, for every qtype and every client IP, the same set of possible
\* answers as a lookup served from the store, provided the rows of that name have not
\* changed since the entry was populated.
C34_EntryServesEveryQuery ==
    \A n \in DOMAIN cache :
        (now < cache[n].expiresAt /\ UnchangedSincePopulated(n)) =>
            /\ cache[n].records = RowsInStore(n)
            /\ \A qtype \in SelQtypes, clientIp \in SelIps :
                  selectRecordsForQuery(cache[n].records, qtype, clientIp)
                    = selectRecordsForQuery(RowsInStore(n), qtype, clientIp)

\* C34 witness: a lookup for ANY was served from an entry populated earlier, after the
\* last change of the name; the entry holds a disabled row and a row that failed its
\* health check.
C34_Witness ==
    /\ LookedUp /\ lastLookup.fromCache /\ lastLookup.age > 0
    /\ lastLookup.qtype = QTYPE.ANY
    /\ lastLookup.fqdn \in DOMAIN cache /\ now < cache[lastLookup.fqdn].expiresAt
    /\ lastLookup.fqdn \in DOMAIN changedAt
    /\ changedAt[lastLookup.fqdn] < PopulatedAt(lastLookup.fqdn)
    /\ \E i, j \in 1..Len(lastLookup.rows) :
          lastLookup.rows[i].enabled = 0 /\ lastLookup.rows[j].healthy = 0

\* C34 witness: an entry that is no longer the rows of the store, because the name
\* changed after the entry was populated.
C34_WitnessChanged ==
    \E n \in DOMAIN cache :
        /\ now < cache[n].expiresAt /\ ~UnchangedSincePopulated(n)
        /\ cache[n].records # RowsInStore(n)

(***************************************************************************)
(* SpecDecode: the loop of decodeName taken one turn at a time, over every *)
(* encoded name of bounded length built from labels and pointers           *)
(***************************************************************************)
MaxNameBytes == 4

\* End of name, a label of one byte, the offsets 12 and 14 of the first and third
\* byte of the name, and the first byte of a pointer.
NameBytes == {0, 1, 12, 14, 192}

EncodedNames == UNION { [1..k -> NameBytes] : k \in 1..MaxNameBytes }

\* The question after the name is there in full, or the datagram ends with the name.
DecodeInputs ==
    { Header(7, 0, 1) \o n \o t : n \in EncodedNames, t \in { <<>>, <<0, 1, 0, 1>> } }

InitDecode ==
    /\ IdleStore /\ IdleServer /\ IdleProcs /\ IdleHist
    /\ call \in { [fn |-> "decodeName", bytes |-> d, ok |-> FALSE,
                    st |-> [offset |-> 12, jumped |-> FALSE, jumpNext |-> 0,
                            labels |-> <<>>, guard |-> 0, status |-> "run"]] :
                    d \in DecodeInputs }

\* The loop test and, when it passes, one pass through the body.
DecodeTurn ==
    /\ call.fn = "decodeName" /\ call.st.status = "run"
    /\ call' = [call EXCEPT !.st = DecodeIter(call.bytes, call.st)]
    /\ UNCHANGED <<storeVars, serverVars, now, api, hc, histVars>>
    /\ NoEvent

\* The loop is over: decodeName returns or throws and parseQuery returns.
DecodeReturns ==
    /\ call.fn = "decodeName" /\ call.st.status # "run"
    /\ call' = [call EXCEPT !.fn = "parseQuery", !.ok = parseQuery(call.bytes).ok]
    /\ UNCHANGED <<storeVars, serverVars, now, api, hc, histVars>>
    /\ NoEvent

NextDecode ==
    \/ DecodeTurn
    \/ DecodeReturns

\* parseQuery is synchronous: a turn of the loop that can run does run.
SpecDecode ==
    InitDecode /\ [][NextDecode]_vars /\ WF_vars(DecodeTurn) /\ WF_vars(DecodeReturns)

\* The passes through the body of the loop so far.
Passes == IF call.st.status = "exhausted" THEN GuardLimit ELSE call.st.guard

\* Following the pointers from the first byte of the name comes back to a pointer
\* already followed.
RECURSIVE PointerCycleFrom(_, _, _)
PointerCycleFrom(bytes, offset, seen) ==
    IF offset + 1 >= Len(bytes) \/ bytes[offset + 1] < 192 THEN FALSE
    ELSE IF offset \in seen THEN TRUE
    ELSE PointerCycleFrom(bytes, (bytes[offset + 1] % 64) * 256 + bytes[offset + 2],
                          seen \cup {offset})

\* The first byte of the name is a pointer or a label that reaches past the end.
FirstReachesPastEnd(bytes) ==
    LET len == bytes[13]
    IN  IF len >= 192
        THEN 13 >= Len(bytes) \/ (len % 64) * 256 + bytes[14] >= Len(bytes)
        ELSE len > 0 /\ 13 + len > Len(bytes)

Returned == call.fn = "parseQuery"

\* C35: name decoding terminates on every input: the decode loop runs at most 200
\* iterations, a compression pointer that points to itself or into a pointer cycle
\* makes parseQuery reject the packet instead of looping forever, and a pointer or
\* label that reaches past the end of the buffer makes it reject the packet.
C35_DecodeTerminates ==
    /\ <>Returned
    /\ [](Passes <= GuardLimit)
    /\ [](Returned =>
            /\ PointerCycleFrom(call.bytes, 12, {}) => ~call.ok
            /\ FirstReachesPastEnd(call.bytes) => ~call.ok
            /\ call.ok => call.st.status = "break")

\* C35 witness: the pointer at offset 12 points to offset 12; the loop gave up after
\* 200 passes and parseQuery rejected the packet.
C35_Witness ==
    /\ Returned /\ ~call.ok
    /\ call.bytes = Header(7, 0, 1) \o <<192, 12>> \o <<0, 1, 0, 1>>
    /\ call.st.status = "exhausted" /\ Passes = GuardLimit

\* C35 witness: two pointers that point to each other.
C35_WitnessCycle ==
    /\ Returned /\ ~call.ok
    /\ call.bytes = Header(7, 0, 1) \o <<192, 14, 192, 12>> \o <<0, 1, 0, 1>>
    /\ PointerCycleFrom(call.bytes, 12, {})
    /\ call.st.status = "exhausted"

\* C35 witness: a pointer past the end of the buffer.
C35_WitnessPastEnd ==
    /\ Returned /\ ~call.ok
    /\ call.bytes = Header(7, 0, 1) \o <<192, 14>>
    /\ call.st.status = "throw" /\ Passes = 2

\* C35 witness: a pointer forward to a label of one byte and the end of the name,
\* accepted in three passes.
C35_WitnessAccepted ==
    /\ Returned /\ call.ok
    /\ call.bytes = Header(7, 0, 1) \o <<192, 14, 1, 12>> \o <<0, 1, 0, 1>>
    /\ Passes = 3

(***************************************************************************)
(* SpecShutdown: the DNS server process receives SIGINT or SIGTERM while   *)
(* health passes run; the API process goes on writing to the store         *)
(***************************************************************************)
ExitProcess_none(h) == h

\* process.exit(0): the passes that await a probe end with the process.
ExitProcess(h) == [h EXCEPT !.passes = <<>>]

Running == call.fn = "none"

Closed == call.fn = "closed"

\* shutdown: repository.close() clears the interval timer and closes the store, then
\* process.exit(0), in one turn of the event loop. call keeps the time of the call and
\* the number of passes that were awaiting a probe.
shutdown ==
    /\ Running
    /\ call' = [fn |-> "closed", at |-> now, awaiting |-> Len(hc.passes)]
    /\ hc' = ExitProcess(hc)
    /\ cache' = <<>> /\ limiter' = <<>>
    /\ UNCHANGED <<storeVars, cfg, now, api, histVars>>
    /\ NoEvent

\* The interval timer fires unless clearInterval has run.
TimerFires == Running /\ HcTimer

NextShutdown ==
    \/ TimerFires
    \/ ProbeSettles
    \/ shutdown
    \/ OwnerSwitchesOne
    \/ Tick

SpecShutdown == InitHealth /\ [][NextShutdown]_vars

\* C36: after shutdown (close() on the repository) the health checker is cancelled: no
\* new pass starts, and a pass that was awaiting a probe when close() was called
\* performs no health write on the store and no cache clear after the store has been
\* closed.
C36_CancelledAfterClose == [][Closed => (hc' = hc /\ cache' = cache)]_vars

\* C36 witness: a pass was awaiting a probe when the process shut down; time has
\* passed since, no pass is left and the checker has written nothing.
C36_Witness ==
    /\ Closed /\ call.awaiting > 0 /\ now > call.at
    /\ hc.passes = <<>> /\ hc.lastWrite.op = "none"
    /\ \A r \in records : r.healthy = 1

\* C36 witness: after the shutdown the API process has changed a row of the store.
C36_WitnessOwnerWrites ==
    /\ Closed /\ hist.commits > 0 /\ hc.lastWrite.op = "none"
    /\ \E r \in records : r.id = 11 /\ r.enabled = 0

(***************************************************************************)
(* SpecOverlap: the interval timer fires while an earlier pass still       *)
(* awaits a probe                                                          *)
(***************************************************************************)
MaxOverlap == 2

ProbedIds == {10, 11}

\* call numbers the probes in the order they start: probes counts them, awaiting
\* holds the number of the probe each pass awaits, stored the number of the probe
\* whose result each row holds and completed the highest number of a probe of the
\* row that has settled (0: none); overlapped tells whether two passes ever ran at
\* the same time.
InitOverlap ==
    /\ UserStore
    /\ records = SeedRows \cup UserRows \cup HealthRows
    /\ nextId = [domains |-> 3, records |-> 12]
    /\ startServer /\ IdleProcs /\ IdleHist
    /\ call = [fn |-> "passes", probes |-> 0, awaiting |-> <<>>,
               stored |-> [id \in ProbedIds |-> 0],
               completed |-> [id \in ProbedIds |-> 0],
               overlapped |-> FALSE]

\* setInterval calls runHealthChecks whether or not the pass before has returned.
TimerFiresAgain ==
    /\ HcTimerUpTo(MaxOverlap)
    /\ call' = IF hc'.passes = hc.passes THEN call
               ELSE [call EXCEPT !.probes = @ + 1,
                                 !.awaiting = Append(@, call.probes + 1),
                                 !.overlapped = @ \/ Len(hc.passes) > 0]

\* A probe settles and its pass writes; the pass then starts its next probe, if any.
AnyProbeSettles ==
    \E i \in 1..Len(hc.passes), result \in {200, 503} :
        /\ HcProbeWrite(i, result)
        /\ LET id == Head(hc.passes[i]).id
               probe == call.awaiting[i]
               last == Len(hc.passes[i]) = 1
           IN  call' = [call EXCEPT
                          !.stored[id] = probe,
                          !.completed[id] = Max(@, probe),
                          !.probes = IF last THEN @ ELSE @ + 1,
                          !.awaiting = IF last THEN RemoveAt(@, i)
                                       ELSE [@ EXCEPT ![i] = call.probes + 1]]

NextOverlap ==
    \/ TimerFiresAgain
    \/ AnyProbeSettles

SpecOverlap == InitOverlap /\ [][NextOverlap]_vars

\* C37: health passes started by the interval timer do not interfere with each other:
\* when the timer fires while an earlier pass is still awaiting a probe, the health
\* bit stored for a record is never overwritten by the result of a probe that started
\* before the probe whose result is already stored (the stored bit always comes from
\* the most recently started probe that has completed).
C37_NewestProbeStored == \A id \in ProbedIds : call.stored[id] = call.completed[id]

\* C37: row 10 holds healthy = 0 from the probe of the first pass although the probe
\* of the second pass, started later, had already stored healthy = 1.
C37_OlderProbeOverwrites ==
    /\ call.stored[10] = 1 /\ call.completed[10] = 2
    /\ hc.lastWrite.op = "write" /\ hc.lastWrite.id = 10 /\ hc.lastWrite.healthy = 0
    /\ \E r \in records : r.id = 10 /\ r.healthy = 0

\* C37: what holds: as long as no two passes have run at the same time, every row
\* holds the result of the newest probe of it that has completed.
C37_SerialPassesInOrder == ~call.overlapped => C37_NewestProbeStored

\* C37: two passes one after the other, each with both of its writes done.
C37_WitnessSerial ==
    /\ ~call.overlapped /\ call.probes = 4 /\ hc.passes = <<>>
    /\ call.stored[10] = 3 /\ call.stored[11] = 4

(***************************************************************************)
(* The end of a block, under SpecBucket                                    *)
(***************************************************************************)
\* The source of the datagram answered in this step has an entry whose block began
\* at some time and covers the instant `now`.
AnsweredKey == IF sent'.address = <<>> THEN UnknownKey ELSE sent'.address

InsideBlock ==
    /\ sent'.op = "send" /\ AnsweredKey \in DOMAIN limiter
    /\ now < limiter[AnsweredKey].blockedUntil

\* The datagram answered in this step is the first of its source to arrive at or
\* after blockedUntil: last still holds the time of the rejection that began the block.
FirstAfterBlock ==
    /\ sent'.op = "send" /\ AnsweredKey \in DOMAIN limiter
    /\ limiter[AnsweredKey].blockedUntil > 0
    /\ now >= limiter[AnsweredKey].blockedUntil
    /\ limiter[AnsweredKey].last < limiter[AnsweredKey].blockedUntil

BlockEnds ==
    /\ InsideBlock => /\ sent'.stage = "rate"
                      /\ limiter'[AnsweredKey] = limiter[AnsweredKey]
    /\ FirstAfterBlock => /\ sent'.stage # "rate"
                          /\ limiter'[AnsweredKey].last = now
                          /\ limiter'[AnsweredKey].tokens >= 0

\* C38: a blocked source is never blocked forever: requests rejected while
\* now < blocked_until change neither tokens, last nor blocked_until, and the first
\* request from that source arriving at or after blocked_until is accepted (with
\* QPS >= 1 and BLOCK_SECONDS >= 1).
C38_BlockEnds == [][BlockEnds]_vars

\* C38 witness: a source whose block began with half a token is accepted again by
\* its first request at blockedUntil exactly.
C38_Witness ==
    /\ sent.op = "send" /\ sent.stage # "rate" /\ sent.address = ClientA
    /\ ClientA \in DOMAIN limiter
    /\ limiter[ClientA].blockedUntil = now /\ now = 1250
    /\ limiter[ClientA].last = now /\ limiter[ClientA].tokens = 1000

\* C38 witness: a request was rejected in the middle of a block and the entry still
\* carries the time and the tokens of the rejection that began it.
C38_WitnessInsideBlock ==
    /\ sent.op = "send" /\ sent.stage = "rate" /\ sent.address = ClientA
    /\ ClientA \in DOMAIN limiter
    /\ limiter[ClientA].last < now /\ now < limiter[ClientA].blockedUntil
    /\ limiter[ClientA].blockedUntil = limiter[ClientA].last + 1000
    /\ limiter[ClientA].tokens = 500

\* C38 witness: the first request after a block arrives later than blockedUntil.
C38_WitnessLater ==
    /\ sent.op = "send" /\ sent.stage # "rate" /\ sent.address = <<>>
    /\ UnknownKey \in DOMAIN limiter
    /\ limiter[UnknownKey].blockedUntil > 0 /\ limiter[UnknownKey].blockedUntil < now
    /\ limiter[UnknownKey].last = now /\ limiter[UnknownKey].tokens = 1000

(***************************************************************************)
(* SpecSweep: the limiter table under datagrams from two sources and       *)
(* pauses of half the idle threshold                                       *)
(***************************************************************************)
MaxPauses == 3

\* The idle threshold of the eviction the specification asks for, in ms.
IdleThreshold == Max(1, DNS_RATE_LIMIT_BLOCK_SECONDS) * 10 * 1000

SweepSources == {ClientA, <<>>}

LongPause ==
    /\ now + IdleThreshold \div 2 <= MaxPauses * (IdleThreshold \div 2)
    /\ now' = now + IdleThreshold \div 2
    /\ UNCHANGED <<storeVars, serverVars, api, hc, call, histVars>>
    /\ NoEvent

SweepAsks ==
    \E address \in SweepSources : Data(address, QueryA_b) /\ UNCHANGED hist

NextSweep ==
    \/ SweepAsks
    \/ LongPause

\* The clock does not stop; whether a source sends again is up to the source.
SpecSweep == InitRate /\ [][NextSweep]_vars /\ WF_vars(LongPause)

\* The entry of key has seen no datagram for longer than the idle threshold (in
\* SpecSweep every pause outlasts a block, so last is the time of the last datagram).
IdleBeyondThreshold(key) ==
    key \in DOMAIN limiter /\ now - limiter[key].last > IdleThreshold

\* C39: the rate-limit table is bounded by eviction: an entry of a source that has
\* sent nothing for longer than the idle threshold (BLOCK_SECONDS * 10) is eventually
\* removed, so the number of entries does not grow without bound when datagrams
\* arrive from ever-new source addresses.
\* (An entry whose source sends again in the meantime need not be removed.)
C39_IdleEntriesEvicted ==
    \A address \in SweepSources :
        IdleBeyondThreshold(rateLimitKey(address))
            ~> (\/ rateLimitKey(address) \notin DOMAIN limiter
                \/ ~IdleBeyondThreshold(rateLimitKey(address)))

\* C39: the entry of a source that sent one datagram at time 0 is still in the table
\* at one and a half times the idle threshold, beside the entries of the other sources.
C39_IdleEntryKept ==
    /\ IdleBeyondThreshold(ClientA) /\ limiter[ClientA].last = 0
    /\ limiter[ClientA].tokens = BurstTokens - 1000
    /\ Cardinality(DOMAIN limiter) = Cardinality(SweepSources)

\* C39: what holds: no step removes an entry, and a datagram from a source without
\* an entry adds one.
C39_EntriesOnlyAdded ==
    [][/\ DOMAIN limiter \subseteq DOMAIN limiter'
       /\ sent'.op = "send" => rateLimitKey(sent'.address) \in DOMAIN limiter']_vars

(***************************************************************************)
(* SpecClientIp: DDNS updates whose address comes from the body, from      *)
(* X-Forwarded-For or from X-Real-IP                                       *)
(***************************************************************************)
\* A text is a sequence of pieces: a blank (CH.sp), a comma, or one of three words
\* without blanks or commas, two of them IPv4 literals.
Comma == 44

Words == <<"192.0.2.1", "192.0.2.2", "nonsense">>

\* The argument or header is not there (undefined, null).
Absent == <<0>>

RECURSIVE TextOf(_)
TextOf(text) ==
    IF text = <<>> THEN ""
    ELSE (IF Head(text) = CH.sp THEN " "
          ELSE IF Head(text) = Comma THEN ","
          ELSE Words[Head(text)]) \o TextOf(Tail(text))

\* text.split(",")[0]
RECURSIVE FirstEntry(_)
FirstEntry(text) ==
    IF text = <<>> \/ Head(text) = Comma THEN <<>>
    ELSE <<Head(text)>> \o FirstEntry(Tail(text))

getClientIp_realIpFirst(forwarded, realIp) ==
    IF realIp # Absent /\ realIp # <<>> THEN Trim(realIp)
    ELSE IF forwarded = Absent THEN <<>> ELSE Trim(FirstEntry(forwarded))

getClientIp(forwarded, realIp) ==
    IF forwarded # Absent /\ forwarded # <<>> THEN Trim(FirstEntry(forwarded))
    ELSE IF realIp = Absent THEN <<>> ELSE Trim(realIp)

\* (body?.ip?.trim() ?? getClientIp(req)).trim(), and the same with myip in /nic/update.
ddnsIp(ip, forwarded, realIp) ==
    Trim(IF ip # Absent THEN Trim(ip) ELSE getClientIp(forwarded, realIp))

\* The ip of a JSON body or the myip of a query string, as sent.
GivenIps == {Absent, <<>>, <<CH.sp>>, <<1>>, <<CH.sp, 1>>, <<3>>}

\* Header values as Headers.get returns them, without blanks at either end.
ForwardedValues == {Absent, <<>>, <<2>>, <<2, Comma, CH.sp, 1>>, <<Comma, 1>>, <<3, Comma, 1>>}

RealIpValues == {Absent, <<1>>, <<3>>}

DdnsPosts ==
    \E ip \in GivenIps, forwarded \in ForwardedValues, realIp \in RealIpValues :
        /\ DdnsBeginFrom(DdnsToken, TextOf(ddnsIp(ip, forwarded, realIp)))
        /\ call' = [fn |-> "ddns.post", ip |-> ip, forwarded |-> forwarded, realIp |-> realIp]

NextClientIp ==
    \/ DdnsPosts
    \/ DdnsDelete
    \/ DdnsInsert
    \/ DdnsAudit

SpecClientIp == InitDdns /\ [][NextClientIp]_vars

\* The address the request in call resolves to as the claim has it: the explicit
\* argument unless absent or blank, else the first entry of X-Forwarded-For unless the
\* header is absent or gives no address, else X-Real-IP.
ClaimedIp ==
    IF call.ip # Absent /\ Trim(call.ip) # <<>> THEN Trim(call.ip)
    ELSE IF call.forwarded # Absent /\ Trim(FirstEntry(call.forwarded)) # <<>>
    THEN Trim(FirstEntry(call.forwarded))
    ELSE IF call.realIp # Absent THEN Trim(call.realIp)
    ELSE <<>>

\* The outcome of the request in call.
UpdateRejected == api.pc = "idle" /\ api.last.op = "ddns" /\ api.last.status = 400

UpdateAddress == IF api.pc = "idle" THEN api.last.ip ELSE api.ip

ResolvedAsClaimed ==
    /\ UpdateRejected <=> ~isIPv4Text(TextOf(ClaimedIp))
    /\ ~UpdateRejected => UpdateAddress = TextOf(ClaimedIp)

\* C40: the effective IP of a DDNS update is the explicit IP argument when one is
\* given; when none is given (absent or blank) it is the first entry of
\* X-Forwarded-For, and when that header is absent or yields no address it is
\* X-Real-IP; the update is rejected only if the address so resolved is not a
\* well-formed IPv4 literal.
C40_EffectiveIp == call.fn = "ddns.post" => ResolvedAsClaimed

\* C40: a blank ip in the body with X-Forwarded-For: 192.0.2.2 was refused.
C40_BlankIpRefused ==
    /\ call.fn = "ddns.post" /\ call.ip = <<CH.sp>> /\ call.forwarded = <<2>>
    /\ UpdateRejected /\ api.last.ip = ""

\* C40: X-Forwarded-For ",192.0.2.1" with X-Real-IP 192.0.2.1 was refused.
C40_EmptyFirstEntryRefused ==
    /\ call.fn = "ddns.post" /\ call.ip = Absent
    /\ call.forwarded = <<Comma, 1>> /\ call.realIp = <<1>>
    /\ UpdateRejected /\ api.last.ip = ""

\* C40: what holds: with an argument that is absent or not blank and a forwarded
\* header that is absent, empty or has a first entry that is not blank, the address
\* is resolved as the claim says and refused only if it is not an IPv4 literal.
C40_EffectiveIpWhenNotBlank ==
    (/\ call.fn = "ddns.post"
     /\ call.ip = Absent \/ Trim(call.ip) # <<>>
     /\ call.forwarded \in {Absent, <<>>} \/ Trim(FirstEntry(call.forwarded)) # <<>>)
        => ResolvedAsClaimed

\* C40: an update without ip took the first entry of X-Forwarded-For and stored it.
C40_WitnessForwarded ==
    /\ call.fn = "ddns.post" /\ call.ip = Absent
    /\ call.forwarded = <<2, Comma, CH.sp, 1>> /\ call.realIp = <<1>>
    /\ api.pc = "idle" /\ api.last.op = "ddns" /\ api.last.status = 200
    /\ api.last.ip = "192.0.2.2"

\* C40: an update without ip and without X-Forwarded-For took X-Real-IP.
C40_WitnessRealIp ==
    /\ call.fn = "ddns.post" /\ call.ip = Absent /\ call.forwarded = Absent
    /\ call.realIp = <<1>> /\ api.pc = "ddns.read" /\ api.ip = "192.0.2.1"

\* C40: the explicit ip won over both headers.
C40_WitnessExplicit ==
    /\ call.fn = "ddns.post" /\ call.ip = <<CH.sp, 1>> /\ call.forwarded = <<2>>
    /\ call.realIp = <<3>> /\ api.pc = "ddns.read" /\ api.ip = "192.0.2.1"


====
